---- MODULE Spec2Model ----
(***************************************************************************)
(* Hatchery backend: the modpack resolution and egg generation pipeline of *)
(* backend/app/services/modpack_service.py (ModpackService).               *)
(*                                                                         *)
(* Strings are tuples of tokens.  A token is one character of the part of  *)
(* a string the code inspects character by character (slug, ids, version   *)
(* numbers) or one literal piece of text the code only copies or matches   *)
(* as a whole (a URL prefix, a title, a fixed phrase of a description).    *)
(* Python's None is the reserved one-token tuple None; no input alphabet   *)
(* holds its token.                                                        *)
(***************************************************************************)
EXTENDS Integers, Sequences, FiniteSets, TLC

VARIABLES
    url,        \* the URL handed to fetch_modpack_info or detect_source
    override,   \* the java_version argument of generate_egg_json
    apiKey,     \* settings.curseforge_api_key
    pc,         \* where the invocation stands
    det,        \* what detect_source returned: source, slug, version or file id
    info,       \* the ModpackInfo the fetcher fills and returns
    loader,     \* the fetchers' local loader / ver_lower: the loader string that decided
    caught,     \* the exception the fetcher's except branch caught, "none" if none
    requests,   \* the upstream requests issued so far and how each was answered
    egg,        \* the descriptor generate_egg_json returned
    raised,     \* an exception left fetch_modpack_info
    mcv,        \* the argument of _detect_java_version called on its own
    jv,         \* what that call returned
    before,     \* the descriptor an earlier generate_egg_json call returned, and its override
    modCount,   \* the argument of _get_recommended_memory called on its own
    memory,     \* what that call returned
    memory_before,  \* what the call before it returned
    calls,      \* the invocations running concurrently on the one ModpackService
    listing,    \* the versions or files list an upstream answered, and the id asked for
    users,      \* the user table of the database
    eggs,       \* the egg_configs table of the database
    pending,    \* the API request that has authenticated and waits for its handler's turn
    last,       \* the API request answered last, and its answer
    user_ai_configs,    \* api/ai.py's _user_ai_configs: the AIConfig stored for each user
    ai_service, \* the one AIService of services/ai_service.py
    ai_calls    \* the AI requests being handled, and what each sent upstream

vars == <<url, override, apiKey, pc, det, info, loader, caught, requests, egg, raised, mcv, jv,
          before, modCount, memory, memory_before, calls, listing, users, eggs, pending, last,
          user_ai_configs, ai_service, ai_calls>>

\* the variables of one invocation followed on its own
single == <<url, override, apiKey, pc, det, info, loader, caught, requests, egg, raised,
            mcv, jv, before, modCount, memory, memory_before, listing, users, eggs, pending,
            last, user_ai_configs, ai_service, ai_calls>>

\* the variables of the service, all but pc: the HTTP API's own steps leave them alone
service == <<url, override, apiKey, det, info, loader, caught, requests, egg, raised, mcv, jv,
             before, modCount, memory, memory_before, calls>>

\* the variables of the HTTP API and of the selection followed on its own
api == <<listing, users, eggs, pending, last, user_ai_configs, ai_service, ai_calls>>

\* the variables of the calls on their own and of the concurrent invocations
others == <<before, modCount, memory, memory_before, calls, listing, users, eggs, pending, last,
            user_ai_configs, ai_service, ai_calls>>

(***************************************************************************)
(* Bounds of the model.                                                    *)
(***************************************************************************)
\* longest URL, in tokens, handed to detect_source on its own
MaxUrlLen == 4
\* longest slug, in characters, of a URL handed to the whole pipeline
MaxSlugLen == 2
\* longest Minecraft version string, in characters, handed to _detect_java_version
MaxVerLen == 4

(***************************************************************************)
(* Values and string helpers.                                              *)
(***************************************************************************)
None == <<"<None>">>

\* a JSON value that is no string (a number, a list): string methods raise on it
NonString == <<"<non-string>">>

Str(s) == <<s>>

Min(S) == CHOOSE x \in S : \A y \in S : x <= y

SeqsUpTo(S, n) == UNION {[1..k -> S] : k \in 0..n}

\* Python truthiness of an optional string: None and "" are falsy
Truthy(s) == s /= None /\ s /= <<>>

\* a variant of Or that takes every a that is not None
OrOnlyForNone(a, b) == IF a /= None THEN a ELSE b

\* `a or b` on optional strings
Or(a, b) == IF Truthy(a) THEN a ELSE b

\* `needle in hay` for strings: needle is a contiguous part of hay
Contains(hay, needle) ==
    \E i \in 1..(Len(hay) - Len(needle) + 1) :
        SubSeq(hay, i, i + Len(needle) - 1) = needle

(***************************************************************************)
(* Character classes of the URL patterns                                   *)
(* (CURSEFORGE_PATTERNS, MODRINTH_PATTERNS).                               *)
(***************************************************************************)
LowerChars == {"a"}
UpperChars == {"B"}
DigitChars == {"9"}
\* [a-zA-Z0-9]
AlnumChars == LowerChars \cup UpperChars \cup DigitChars
\* [a-zA-Z0-9-]
SlugChars == AlnumChars \cup {"-"}

CF_PREFIX == <<"curseforge.com/minecraft/modpacks/">>
CF_LEGACY_PREFIX == <<"legacy.", "curseforge.com/minecraft/modpacks/">>
MR_PREFIX == <<"modrinth.com/modpack/">>

\* a pattern: literal prefix, ([cls]+), then optionally literal suffix and ([idcls]+)
CURSEFORGE_PATTERNS ==
    << [prefix |-> CF_PREFIX, slugcls |-> SlugChars,
        suffix |-> <<"/files/">>, idcls |-> DigitChars],
       [prefix |-> CF_LEGACY_PREFIX, slugcls |-> SlugChars,
        suffix |-> <<"/files/">>, idcls |-> DigitChars] >>

MODRINTH_PATTERNS ==
    << [prefix |-> MR_PREFIX, slugcls |-> SlugChars,
        suffix |-> <<"/version/">>, idcls |-> AlnumChars] >>

\* length of the longest run of characters of cls in s from position j on
RECURSIVE RunLen(_, _, _)
RunLen(s, j, cls) ==
    IF j <= Len(s) /\ s[j] \in cls THEN 1 + RunLen(s, j + 1, cls) ELSE 0

NoMatch == [matched |-> FALSE, g1 |-> None, g2 |-> None]

\* the match of pattern p that starts at position i of s, as re does it: the
\* slug group is greedy, the optional group takes part when it can
MatchAt(p, s, i) ==
    LET j == i + Len(p.prefix)
        n == RunLen(s, j, p.slugcls)
        k == j + n
        q == k + Len(p.suffix)
        m == RunLen(s, q, p.idcls)
    IN  IF j - 1 <= Len(s) /\ SubSeq(s, i, j - 1) = p.prefix /\ n >= 1
        THEN [matched |-> TRUE,
              g1 |-> SubSeq(s, j, k - 1),
              g2 |-> IF q - 1 <= Len(s) /\ SubSeq(s, k, q - 1) = p.suffix /\ m >= 1
                     THEN SubSeq(s, q, q + m - 1)
                     ELSE None]
        ELSE NoMatch

\* re.search(p, s): the leftmost match
Search(p, s) ==
    LET at == {i \in 1..Len(s) : MatchAt(p, s, i).matched}
    IN  IF at = {} THEN NoMatch ELSE MatchAt(p, s, Min(at))

\* the first pattern of the list that matches s (the `for pattern in ...` loops)
RECURSIVE FirstMatch(_, _, _)
FirstMatch(patterns, s, n) ==
    IF n > Len(patterns) THEN NoMatch
    ELSE IF Search(patterns[n], s).matched THEN Search(patterns[n], s)
    ELSE FirstMatch(patterns, s, n + 1)

\* a variant of Detected that takes the groups in the other order
DetectedGroupsSwapped(source, m) == [source |-> source, slug |-> m.g2, id |-> m.g1]

Detected(source, m) == [source |-> source, slug |-> m.g1, id |-> m.g2]

detect_source(u) ==
    LET cf == FirstMatch(CURSEFORGE_PATTERNS, u, 1)
        mr == FirstMatch(MODRINTH_PATTERNS, u, 1)
    IN  IF cf.matched THEN Detected("CURSEFORGE", cf)
        ELSE IF mr.matched THEN Detected("MODRINTH", mr)
        ELSE [source |-> "UNKNOWN", slug |-> None, id |-> None]

(***************************************************************************)
(* _detect_java_version: Minecraft version string -> Java version.         *)
(***************************************************************************)
VerDigits == {"0", "1", "2", "7", "8"}
\* the characters a version string is drawn from: digits, the separator, a
\* sign and a character int() rejects
VerChars == VerDigits \cup {".", "-", "x"}

DigitVal(c) ==
    CASE c = "0" -> 0 [] c = "1" -> 1 [] c = "2" -> 2 [] c = "7" -> 7 [] c = "8" -> 8

\* s.split("."): the pieces of s between the separators (always at least one)
RECURSIVE Split(_)
Split(s) ==
    LET dots == {i \in 1..Len(s) : s[i] = "."}
    IN  IF dots = {} THEN <<s>>
        ELSE <<SubSeq(s, 1, Min(dots) - 1)>> \o Split(SubSeq(s, Min(dots) + 1, Len(s)))

RECURSIVE NatOf(_)
NatOf(s) == IF s = <<>> THEN 0 ELSE 10 * NatOf(SubSeq(s, 1, Len(s) - 1)) + DigitVal(s[Len(s)])

AllDigits(s) == Len(s) >= 1 /\ \A i \in 1..Len(s) : s[i] \in VerDigits

\* int(s): an optional sign and at least one digit, else ValueError
IntParses(s) == AllDigits(s) \/ (Len(s) >= 2 /\ s[1] = "-" /\ AllDigits(Tail(s)))

IntOf(s) == IF s[1] = "-" THEN 0 - NatOf(Tail(s)) ELSE NatOf(s)

Returned(n) == [exc |-> "none", val |-> n]

Raised(e) == [exc |-> e, val |-> 0]

\* a variant of JavaTier whose comparisons are strict
JavaTierOffByOne(major, minor) ==
    IF major = 1
    THEN IF minor > 21 THEN 21
         ELSE IF minor > 18 THEN 17
         ELSE IF minor > 17 THEN 16
         ELSE IF minor > 12 THEN 11
         ELSE 8
    ELSE 21

\* the if/elif chain on (major, minor)
JavaTier(major, minor) ==
    IF major = 1
    THEN IF minor >= 21 THEN 21
         ELSE IF minor >= 18 THEN 17
         ELSE IF minor >= 17 THEN 16
         ELSE IF minor >= 12 THEN 11
         ELSE 8
    ELSE 21

\* the body of the try block: int() raises ValueError on a piece it cannot parse
JavaTryBody(v) ==
    LET parts == Split(v)
    IN  IF ~IntParses(parts[1]) THEN Raised("ValueError")
        ELSE IF Len(parts) > 1 /\ ~IntParses(parts[2]) THEN Raised("ValueError")
        ELSE Returned(JavaTier(IntOf(parts[1]),
                               IF Len(parts) > 1 THEN IntOf(parts[2]) ELSE 0))

_detect_java_version(v) ==
    IF ~Truthy(v) THEN Returned(17)
    ELSE IF JavaTryBody(v).exc \in {"ValueError", "IndexError"} THEN Returned(17)
    ELSE JavaTryBody(v)


(***************************************************************************)
(* ModpackType, ModpackInfo.                                               *)
(***************************************************************************)
FORGE == Str("forge")
FABRIC == Str("fabric")
NEOFORGE == Str("neoforge")
QUILT == Str("quilt")
VANILLA == Str("vanilla")

ModpackType == {FORGE, FABRIC, NEOFORGE, QUILT, VANILLA}

\* the dataclass defaults
ModpackInfo ==
    [name |-> Str("Unknown Modpack"), source |-> "UNKNOWN", source_url |-> <<>>,
     slug |-> <<>>, project_id |-> <<>>, minecraft_version |-> None,
     modloader |-> None, modloader_version |-> None, java_version |-> 17,
     description |-> None, icon_url |-> None, author |-> None, mod_count |-> 0,
     mods |-> <<>>, download_url |-> None, file_id |-> None]

(***************************************************************************)
(* JSON as the fetchers read it.  Absent is a key the object does not      *)
(* hold; None is JSON null; JNum(d) is the number written with digits d.   *)
(***************************************************************************)
Absent == <<"<absent>">>

JNum(d) == <<"<number>">> \o d

\* dict.get(key, default)
Get(v, default) == IF v = Absent THEN default ELSE v

\* str(x)
StrOf(x) ==
    IF x = None THEN Str("None")
    ELSE IF Len(x) >= 1 /\ x[1] = "<number>" THEN Tail(x)
    ELSE x

\* str.lower(), token by token
LowerTok(t) ==
    CASE t = "Forge" -> "forge" [] t = "Neo" -> "neo" [] t = "Fabric" -> "fabric"
      [] t = "Quilt" -> "quilt" [] t = "B" -> "b" [] OTHER -> t

UpperTok(t) == CASE t = "a" -> "A" [] t = "b" -> "B" [] OTHER -> t

Lower(s) == [i \in 1..Len(s) |-> LowerTok(s[i])]

\* str.replace("-", " ")
ReplaceHyphens(s) == [i \in 1..Len(s) |-> IF s[i] = "-" THEN " " ELSE s[i]]

\* str.title(): a cased character is upper-cased after an uncased one (or at
\* the start) and lower-cased after a cased one
Title(s) ==
    [i \in 1..Len(s) |->
        LET cased(c) == c \in LowerChars \cup UpperChars
        IN  IF ~cased(s[i]) THEN s[i]
            ELSE IF i > 1 /\ cased(s[i - 1]) THEN LowerTok(s[i])
            ELSE UpperTok(s[i])]

\* slug.replace("-", " ").title()
SlugName(slug) == Title(ReplaceHyphens(slug))

\* re.match(r"^\d+\.\d+(\.\d+)?$", v)
McVersionMatches(v) ==
    /\ Len(Split(v)) \in {2, 3}
    /\ \A k \in 1..Len(Split(v)) : AllDigits(Split(v)[k])

\* [v for v in game_versions if re.match(...)]
RECURSIVE McVersions(_)
McVersions(s) ==
    IF s = <<>> THEN <<>>
    ELSE (IF McVersionMatches(Head(s)) THEN <<Head(s)>> ELSE <<>>) \o McVersions(Tail(s))

(***************************************************************************)
(* The try block of a fetcher runs statement by statement on the info it   *)
(* fills; T(i, e) is where it stands: the info so far and the exception    *)
(* raised ("none" while it runs on).                                       *)
(***************************************************************************)
T(i, e) == [i |-> i, exc |-> e, loader |-> None]

\* r, with the loader string the fetcher has examined
WithLoader(r, l) == [r EXCEPT !.loader = l]

\* what response.json() does with the body of a response
JsonExc(body) == IF body.shape = "malformed" THEN "JSONDecodeError" ELSE "none"

(***************************************************************************)
(* _fetch_modrinth_info                                                    *)
(***************************************************************************)
\* a variant of ModrinthHandler that lets the exception through
ModrinthHandlerRethrows(i, slug, e) == T(i, e)

\* the except branch of _fetch_modrinth_info
ModrinthHandler(i, slug, e) ==
    T([i EXCEPT !.name = SlugName(slug),
                !.description = Str("Modrinth modpack: ") \o slug
                                \o <<" (Error fetching details: ", e, ")">>],
      "none")

\* a variant of ModrinthProject that raises on a status other than 200
ModrinthProjectRaisesForStatus(i, slug, resp) ==
    IF resp.exc /= "none" THEN T(i, resp.exc)
    ELSE IF resp.status /= 200 THEN T(i, "HTTPStatusError")
    ELSE IF JsonExc(resp.body) /= "none" THEN T(i, JsonExc(resp.body))
    ELSE IF resp.body.shape /= "object" THEN T(i, "AttributeError")
    ELSE T([i EXCEPT !.name = Get(resp.body.title, slug),
                     !.project_id = Get(resp.body.id, <<>>),
                     !.description = Get(resp.body.description, <<>>),
                     !.icon_url = Get(resp.body.icon_url, None)],
           "none")

\* GET /project/{slug} and the statements that read its response
ModrinthProject(i, slug, resp) ==
    IF resp.exc /= "none" THEN T(i, resp.exc)
    ELSE IF resp.status /= 200 THEN T(i, "none")
    ELSE IF JsonExc(resp.body) /= "none" THEN T(i, JsonExc(resp.body))
    ELSE IF resp.body.shape /= "object" THEN T(i, "AttributeError")
    ELSE T([i EXCEPT !.name = Get(resp.body.title, slug),
                     !.project_id = Get(resp.body.id, <<>>),
                     !.description = Get(resp.body.description, <<>>),
                     !.icon_url = Get(resp.body.icon_url, None)],
           "none")

\* v.get("id") == version_id or v.get("version_number") == version_id
VersionMatches(v, version_id) ==
    Get(v.id, None) = version_id \/ Get(v.version_number, None) = version_id

\* a variant of ModrinthSelect that takes the first version whatever id is asked for
ModrinthSelectAlwaysFirst(versions, version_id) == 1

\* the index of the version the fetcher uses; 0 when the search raises on an
\* element that is no object before it finds a match
ModrinthSelect(versions, version_id) ==
    LET stop == {k \in 1..Len(versions) :
                    ~versions[k].dict \/ VersionMatches(versions[k], version_id)}
    IN  IF ~Truthy(version_id) \/ stop = {} THEN 1
        ELSE IF ~versions[Min(stop)].dict THEN 0
        ELSE Min(stop)

\* the if/elif chain on the lower-cased first loader, in the order of the code
ModrinthLoader(l) ==
    IF Contains(l, <<"fabric">>) THEN FABRIC
    ELSE IF Contains(l, <<"forge">>) THEN FORGE
    ELSE IF Contains(l, <<"neo", "forge">>) THEN NEOFORGE
    ELSE IF Contains(l, <<"quilt">>) THEN QUILT
    ELSE None

\* next((f for f in files if f.get("primary")), files[0])
PrimaryFile(files) ==
    LET prim == {k \in 1..Len(files) : files[k].primary}
    IN  IF prim = {} THEN files[1] ELSE files[Min(prim)]

\* a variant of ModrinthDeps that does not pass over the Fabric API
RECURSIVE ModrinthDepsCountsFabricApi(_, _, _)
ModrinthDepsCountsFabricApi(deps, modloader, current) ==
    IF deps = <<>> THEN current
    ELSE LET dep == Head(deps)
         IN  IF Truthy(Get(dep.version_id, None)) /\ modloader /= None
             THEN ModrinthDepsCountsFabricApi(Tail(deps), modloader, dep.version_id)
             ELSE ModrinthDepsCountsFabricApi(Tail(deps), modloader, current)

\* the loop over the dependencies: the modloader_version it leaves
RECURSIVE ModrinthDeps(_, _, _)
ModrinthDeps(deps, modloader, current) ==
    IF deps = <<>> THEN current
    ELSE LET dep == Head(deps)
         IN  IF Get(dep.project_id, <<>>) \in {Str("P7dR8mSH"), Str("fabric-api")}
             THEN ModrinthDeps(Tail(deps), modloader, current)
             ELSE IF Truthy(Get(dep.version_id, None)) /\ modloader /= None
             THEN ModrinthDeps(Tail(deps), modloader, dep.version_id)
             ELSE ModrinthDeps(Tail(deps), modloader, current)

\* the statements that read the selected version
ModrinthVersion(i, version) ==
    LET i1 == [i EXCEPT !.file_id = Get(version.id, None)]
        mc == McVersions(version.game_versions)
        i2 == IF mc /= <<>> THEN [i1 EXCEPT !.minecraft_version = mc[1]] ELSE i1
        i3 == IF version.loaders /= <<>>
              THEN [i2 EXCEPT !.modloader = ModrinthLoader(Lower(version.loaders[1]))]
              ELSE i2
        i4 == IF version.files /= <<>>
              THEN [i3 EXCEPT !.download_url = Get(PrimaryFile(version.files).url, None)]
              ELSE i3
        i5 == [i4 EXCEPT !.modloader_version =
                  ModrinthDeps(version.dependencies, i4.modloader, i4.modloader_version)]
    IN  IF ~version.dict THEN T(i, "AttributeError")
        ELSE IF \E k \in 1..Len(version.game_versions) :
                    version.game_versions[k] = NonString
        THEN T(i1, "TypeError")
        ELSE IF version.loaders /= <<>> /\ version.loaders[1] = NonString
        THEN T(i2, "AttributeError")
        ELSE IF version.loaders /= <<>>
        THEN WithLoader(T(i5, "none"), Lower(version.loaders[1]))
        ELSE T(i5, "none")

\* GET /project/{slug}/version and the statements after it, to the end of the try
ModrinthVersions(i, version_id, resp) ==
    LET sel == ModrinthSelect(resp.body.items, version_id)
        r == IF resp.exc /= "none" THEN T(i, resp.exc)
             ELSE IF resp.status /= 200 THEN T(i, "none")
             ELSE IF JsonExc(resp.body) /= "none" THEN T(i, JsonExc(resp.body))
             ELSE IF resp.body.shape = "object"
             THEN T(i, IF Truthy(version_id) THEN "AttributeError" ELSE "KeyError")
             ELSE IF resp.body.items = <<>> THEN T(i, "none")
             ELSE IF sel = 0 THEN T(i, "AttributeError")
             ELSE ModrinthVersion(i, resp.body.items[sel])
    IN  IF r.exc /= "none" THEN r
        ELSE [r EXCEPT !.i.java_version = _detect_java_version(r.i.minecraft_version).val]


(***************************************************************************)
(* _fetch_curseforge_info                                                  *)
(***************************************************************************)
\* a variant of CurseforgeNoKey that leaves the name as it is
CurseforgeNoKeyKeepsName(i, slug) ==
    [i EXCEPT !.description = Str("CurseForge modpack: ") \o slug
                              \o Str(" (API key not configured)")]

\* the branch taken when settings.curseforge_api_key is empty
CurseforgeNoKey(i, slug) ==
    [i EXCEPT !.name = SlugName(slug),
              !.description = Str("CurseForge modpack: ") \o slug
                              \o Str(" (API key not configured)")]

\* a variant of CurseforgeHandler that leaves the name as it is
CurseforgeHandlerKeepsName(i, slug, e) ==
    T([i EXCEPT !.description = Str("CurseForge modpack: ") \o slug
                                \o <<" (Error: ", e, ")">>],
      "none")

\* the except branch of _fetch_curseforge_info
CurseforgeHandler(i, slug, e) ==
    T([i EXCEPT !.name = SlugName(slug),
                !.description = Str("CurseForge modpack: ") \o slug
                                \o <<" (Error: ", e, ")">>],
      "none")

\* the if/elif chain of the loop body on one lower-cased game version
CurseforgeLoaderOf(ver) ==
    IF Contains(ver, <<"fabric">>) THEN FABRIC
    ELSE IF Contains(ver, <<"neo", "forge">>) THEN NEOFORGE
    ELSE IF Contains(ver, <<"forge">>) THEN FORGE
    ELSE IF Contains(ver, <<"quilt">>) THEN QUILT
    ELSE None

\* the loop over gameVersions stops at the first entry that names a loader:
\* that entry, lower-cased (None when the loop runs to its end)
RECURSIVE CurseforgeLoaderEntry(_)
CurseforgeLoaderEntry(game_versions) ==
    IF game_versions = <<>> THEN None
    ELSE IF CurseforgeLoaderOf(Lower(Head(game_versions))) /= None
    THEN Lower(Head(game_versions))
    ELSE CurseforgeLoaderEntry(Tail(game_versions))

\* the modloader the loop leaves
CurseforgeLoader(game_versions, current) ==
    IF CurseforgeLoaderEntry(game_versions) = None THEN current
    ELSE CurseforgeLoaderOf(CurseforgeLoaderEntry(game_versions))

\* the file the fetcher uses: the first whose str(id) is file_id, else the first
CurseforgeSelect(files, file_id) ==
    LET hit == {k \in 1..Len(files) : StrOf(Get(files[k].id, None)) = file_id}
    IN  IF ~Truthy(file_id) \/ hit = {} THEN 1 ELSE Min(hit)

\* the statements that read the selected file
CurseforgeFile(i, file) ==
    LET i1 == [i EXCEPT !.file_id = StrOf(Get(file.id, <<>>)),
                        !.download_url = Get(file.downloadUrl, None)]
        mc == McVersions(file.gameVersions)
        i2 == IF mc /= <<>> THEN [i1 EXCEPT !.minecraft_version = mc[1]] ELSE i1
        i3 == [i2 EXCEPT !.modloader = CurseforgeLoader(file.gameVersions, i2.modloader)]
    IN  IF \E k \in 1..Len(file.gameVersions) : file.gameVersions[k] = NonString
        THEN T(i1, "TypeError")
        ELSE WithLoader(T(i3, "none"), CurseforgeLoaderEntry(file.gameVersions))

\* the statements that read the first mod of the search result
CurseforgeMod(i, slug, file_id, mod) ==
    LET i1 == [i EXCEPT !.project_id = StrOf(Get(mod.id, <<>>)),
                        !.name = Get(mod.name, slug),
                        !.description = Get(mod.summary, <<>>),
                        !.icon_url = IF mod.logo.present THEN Get(mod.logo.url, None)
                                     ELSE None]
        i2 == IF mod.authors /= <<>>
              THEN [i1 EXCEPT !.author = Get(mod.authors[1].name, None)]
              ELSE i1
    IN  IF mod.latestFiles = <<>> THEN T(i2, "none")
        ELSE CurseforgeFile(i2, mod.latestFiles[CurseforgeSelect(mod.latestFiles, file_id)])

\* GET /mods/search and the statements after it, to the end of the try
CurseforgeSearch(i, slug, file_id, resp) ==
    LET r == IF resp.exc /= "none" THEN T(i, resp.exc)
             ELSE IF resp.status /= 200 THEN T(i, "none")
             ELSE IF JsonExc(resp.body) /= "none" THEN T(i, JsonExc(resp.body))
             ELSE IF resp.body.shape /= "object" THEN T(i, "AttributeError")
             ELSE IF resp.body.data = <<>> THEN T(i, "none")
             ELSE CurseforgeMod(i, slug, file_id, resp.body.data[1])
    IN  IF r.exc /= "none" THEN r
        ELSE [r EXCEPT !.i.java_version = _detect_java_version(r.i.minecraft_version).val]


(***************************************************************************)
(* generate_egg_json and its helpers.  java_version, the override, is      *)
(* [isNone |-> TRUE, val |-> 0] for None and [isNone |-> FALSE, val |-> n] *)
(* for the integer n.                                                      *)
(***************************************************************************)
NoOverride == [isNone |-> TRUE, val |-> 0]

Override(n) == [isNone |-> FALSE, val |-> n]

\* java_version or modpack_info.java_version
EffectiveJava(java_version, i) ==
    IF ~java_version.isNone /\ java_version.val /= 0 THEN java_version.val
    ELSE i.java_version

\* a variant of EffectiveLoader whose default is VANILLA
EffectiveLoaderDefaultsToVanilla(i) == IF i.modloader /= None THEN i.modloader ELSE VANILLA

\* modpack_info.modloader or ModpackType.FORGE
EffectiveLoader(i) == IF i.modloader /= None THEN i.modloader ELSE FORGE

\* the key f"Java {n}" of the docker image map
JavaKey(n) == <<"Java ", n>>

\* a variant of _get_docker_images without the Java 21 fallback
DockerImagesWithoutJava21(java_version) ==
    LET ns == {java_version}
              \cup (IF java_version /= 17 THEN {17} ELSE {})
    IN  [k \in {JavaKey(n) : n \in ns} |-> <<"ghcr.io/pterodactyl/yolks:java_", k[2]>>]

_get_docker_images(java_version) ==
    LET ns == {java_version}
              \cup (IF java_version /= 17 THEN {17} ELSE {})
              \cup (IF java_version /= 21 THEN {21} ELSE {})
    IN  [k \in {JavaKey(n) : n \in ns} |-> <<"ghcr.io/pterodactyl/yolks:java_", k[2]>>]

_get_startup_command(modloader, java_version) ==
    <<"java ", "-Xms128M -Xmx{{SERVER_MEMORY}}M", " ",
      IF java_version >= 17 THEN "jvm_flags: G1GC profile for Java 17 and later"
      ELSE "jvm_flags: G1GC profile for Java before 17",
      " -jar {{SERVER_JARFILE}}">>

\* one of the five script templates with the values interpolated into it
Script(template, mc_version, loader_version, i) ==
    [template |-> template, name |-> StrOf(i.name), source_url |-> i.source_url,
     mc_version |-> mc_version, loader_version |-> loader_version]

\* a variant of _get_install_script without the QUILT branch
InstallScriptWithoutQuilt(i, modloader) ==
    LET mc_version == Or(i.minecraft_version, Str("1.20.1"))
        loader_version == Or(i.modloader_version, Str("latest"))
    IN  IF modloader = FABRIC THEN Script("Fabric", mc_version, loader_version, i)
        ELSE IF modloader = FORGE THEN Script("Forge", mc_version, loader_version, i)
        ELSE IF modloader = NEOFORGE THEN Script("NeoForge", mc_version, loader_version, i)
        ELSE Script("Vanilla", mc_version, Absent, i)

_get_install_script(i, modloader) ==
    LET mc_version == Or(i.minecraft_version, Str("1.20.1"))
        loader_version == Or(i.modloader_version, Str("latest"))
    IN  IF modloader = FABRIC THEN Script("Fabric", mc_version, loader_version, i)
        ELSE IF modloader = FORGE THEN Script("Forge", mc_version, loader_version, i)
        ELSE IF modloader = NEOFORGE THEN Script("NeoForge", mc_version, loader_version, i)
        ELSE IF modloader = QUILT THEN Script("Quilt", mc_version, loader_version, i)
        ELSE Script("Vanilla", mc_version, Absent, i)

\* a variant of _get_recommended_memory whose tiers start at the boundary itself
RecommendedMemoryInclusive(mod_count) ==
    IF mod_count >= 200 THEN Str("6144")
    ELSE IF mod_count >= 100 THEN Str("4096")
    ELSE IF mod_count >= 50 THEN Str("3072")
    ELSE IF mod_count >= 20 THEN Str("2048")
    ELSE Str("1536")

_get_recommended_memory(mod_count) ==
    IF mod_count > 200 THEN Str("6144")
    ELSE IF mod_count > 100 THEN Str("4096")
    ELSE IF mod_count > 50 THEN Str("3072")
    ELSE IF mod_count > 20 THEN Str("2048")
    ELSE Str("1536")

Variable(name, env_variable, default_value, user_editable, rules) ==
    [name |-> name, env_variable |-> env_variable, default_value |-> default_value,
     user_viewable |-> TRUE, user_editable |-> user_editable, rules |-> rules,
     field_type |-> "text"]

LoaderVariable(name, env_variable, default_value) ==
    Variable(name, env_variable, default_value, TRUE, "required|string|max:20")

\* a variant of LoaderVariables without the QUILT branch
LoaderVariablesWithoutQuilt(i, modloader) ==
    IF modloader = FABRIC
    THEN <<LoaderVariable("Fabric Version", "FABRIC_VERSION",
                          Or(i.modloader_version, Str("latest")))>>
    ELSE IF modloader = FORGE
    THEN <<LoaderVariable("Forge Version", "FORGE_VERSION",
                          Or(i.modloader_version, Str("recommended")))>>
    ELSE IF modloader = NEOFORGE
    THEN <<LoaderVariable("NeoForge Version", "NEOFORGE_VERSION",
                          Or(i.modloader_version, Str("latest")))>>
    ELSE <<>>

\* the if/elif chain that appends the modloader-specific variable
LoaderVariables(i, modloader) ==
    IF modloader = FABRIC
    THEN <<LoaderVariable("Fabric Version", "FABRIC_VERSION",
                          Or(i.modloader_version, Str("latest")))>>
    ELSE IF modloader = FORGE
    THEN <<LoaderVariable("Forge Version", "FORGE_VERSION",
                          Or(i.modloader_version, Str("recommended")))>>
    ELSE IF modloader = NEOFORGE
    THEN <<LoaderVariable("NeoForge Version", "NEOFORGE_VERSION",
                          Or(i.modloader_version, Str("latest")))>>
    ELSE IF modloader = QUILT
    THEN <<LoaderVariable("Quilt Version", "QUILT_VERSION",
                          Or(i.modloader_version, Str("latest")))>>
    ELSE <<>>

\* a variant of ModpackUrlVariables whose default is the page of the modpack
ModpackUrlVariablesFromSourceUrl(i) ==
    IF Truthy(i.download_url)
    THEN <<Variable("Modpack URL", "MODPACK_URL", i.source_url, TRUE, "nullable|url")>>
    ELSE <<>>

\* the `if modpack_info.download_url` that appends the Modpack URL variable
ModpackUrlVariables(i) ==
    IF Truthy(i.download_url)
    THEN <<Variable("Modpack URL", "MODPACK_URL", i.download_url, TRUE, "nullable|url")>>
    ELSE <<>>

_get_variables(i, modloader, java_version) ==
    << Variable("Server Jar File", "SERVER_JARFILE", Str("server.jar"), TRUE,
                "required|string|max:50"),
       Variable("Server Memory", "SERVER_MEMORY", _get_recommended_memory(i.mod_count),
                FALSE, "required|numeric|min:512"),
       Variable("Minecraft Version", "MINECRAFT_VERSION",
                Or(i.minecraft_version, Str("1.20.1")), TRUE, "required|string|max:20") >>
    \o LoaderVariables(i, modloader)
    \o ModpackUrlVariables(i)

\* modloader.value.title()
LoaderTitle(modloader) ==
    CASE modloader = FORGE -> "Forge" [] modloader = FABRIC -> "Fabric"
      [] modloader = NEOFORGE -> "Neoforge" [] modloader = QUILT -> "Quilt"
      [] modloader = VANILLA -> "Vanilla"

\* a variant of generate_egg_json that stamps the description too
GenerateEggJsonStampsDescription(i, java_version, now) ==
    LET java_ver == EffectiveJava(java_version, i)
        modloader == EffectiveLoader(i)
    IN  [exported_at |-> now,
         name |-> i.name,
         author |-> "hatchery@generated.local",
         description |-> <<"Generated at ", now>>,
         docker_images |-> _get_docker_images(java_ver),
         startup |-> _get_startup_command(modloader, java_ver),
         script |-> _get_install_script(i, modloader),
         container |-> <<"eclipse-temurin:", java_ver, "-jdk">>,
         variables |-> _get_variables(i, modloader, java_ver)]

\* now is what datetime.now(timezone.utc) reads during the call
generate_egg_json(i, java_version, now) ==
    LET java_ver == EffectiveJava(java_version, i)
        modloader == EffectiveLoader(i)
    IN  [exported_at |-> now,
         name |-> i.name,
         author |-> "hatchery@generated.local",
         description |-> Or(i.description,
                            <<"Generated ", LoaderTitle(modloader), " server for ">>
                            \o StrOf(i.name)),
         docker_images |-> _get_docker_images(java_ver),
         startup |-> _get_startup_command(modloader, java_ver),
         script |-> _get_install_script(i, modloader),
         container |-> <<"eclipse-temurin:", java_ver, "-jdk">>,
         variables |-> _get_variables(i, modloader, java_ver)]

\* no descriptor yet
NoEgg == [name |-> None]

\* no earlier call of generate_egg_json
NoCall == [egg |-> NoEgg, override |-> NoOverride]

\* latest reading of the clock
MaxClock == 1

\* what datetime.now(timezone.utc) may read
Times == 0..MaxClock


(***************************************************************************)
(* What the upstream APIs may answer: the call raises (no connection, the  *)
(* 30 s timeout of the client), or answers with a status and a body.       *)
(***************************************************************************)
\* most versions in a Modrinth version list
MaxVersions == 2
\* most files in the latestFiles of a CurseForge mod
MaxFiles == 2

NoBody == [shape |-> "none"]

Failures == {[exc |-> e, status |-> 0, body |-> NoBody] : e \in {"ConnectError", "ReadTimeout"}}

NotOk == {[exc |-> "none", status |-> st, body |-> NoBody] : st \in {404, 503}}

Ok(bodies) == {[exc |-> "none", status |-> 200, body |-> b] : b \in bodies}

ProjectBodies ==
    { [shape |-> "malformed"], [shape |-> "array"],
      [shape |-> "object", title |-> Str("All the Mods 9"), id |-> Str("P1"),
       description |-> Str("A big pack"), icon_url |-> Str("https://cdn/icon.png")],
      [shape |-> "object", title |-> Absent, id |-> Absent,
       description |-> Absent, icon_url |-> Absent],
      [shape |-> "object", title |-> None, id |-> None,
       description |-> None, icon_url |-> None] }

ProjectResponses == Failures \cup NotOk \cup Ok(ProjectBodies)

\* an empty JSON object as a version
EmptyVersion ==
    [dict |-> TRUE, id |-> Absent, version_number |-> Absent, game_versions |-> <<>>,
     loaders |-> <<>>, files |-> <<>>, dependencies |-> <<>>]

VersionPool ==
    { [EmptyVersion EXCEPT !.dict = FALSE],
      EmptyVersion,
      [EmptyVersion EXCEPT
          !.id = Str("a"), !.version_number = Str("9"),
          !.game_versions = << <<"1", ".", "2", "0", ".", "1">> >>,
          !.loaders = << <<"fabric">> >>,
          !.files = << [primary |-> FALSE, url |-> Str("https://cdn/a-client.mrpack")],
                       [primary |-> TRUE, url |-> Str("https://cdn/a.mrpack")] >>,
          !.dependencies = << [project_id |-> Str("P7dR8mSH"), version_id |-> Str("fapi")],
                              [project_id |-> Str("loader"), version_id |-> Str("0.15")] >>],
      [EmptyVersion EXCEPT
          !.id = Str("B"), !.version_number = Str("a"),
          !.game_versions = << <<"neo", "forge">>, <<"1", ".", "2", "1">> >>,
          !.loaders = << <<"neo", "forge">>, <<"forge">> >>,
          !.files = << [primary |-> FALSE, url |-> Absent] >>,
          !.dependencies = << [project_id |-> Absent, version_id |-> Str("21.1")] >>],
      [EmptyVersion EXCEPT
          !.id = Str("9"),
          !.game_versions = << <<"1", ".", "1", "2", ".", "2">> >>,
          !.loaders = << <<"Forge">> >>],
      [EmptyVersion EXCEPT
          !.version_number = Str("1.0"),
          !.game_versions = << <<"1", ".", "1", "7">> >>,
          !.loaders = << <<"quilt">> >>,
          !.dependencies = << [project_id |-> Str("qsl"), version_id |-> None] >>],
      [EmptyVersion EXCEPT
          !.id = Str("a"),
          !.game_versions = << <<"1", ".", "2", "1">> >>,
          !.loaders = << NonString >>] }

VersionsBodies ==
    { [shape |-> "malformed", items |-> <<>>], [shape |-> "object", items |-> <<>>] }
    \cup {[shape |-> "array", items |-> vs] : vs \in SeqsUpTo(VersionPool, MaxVersions)}

VersionsResponses == Failures \cup NotOk \cup Ok(VersionsBodies)

\* an empty JSON object as a file
EmptyFile == [id |-> Absent, downloadUrl |-> Absent, gameVersions |-> <<>>]

FilePool ==
    { EmptyFile,
      [id |-> JNum(<<"9">>), downloadUrl |-> Str("https://edge/f9.zip"),
       gameVersions |-> << <<"Fabric">>, <<"1", ".", "2", "0", ".", "1">> >>],
      [id |-> JNum(<<"9", "9">>), downloadUrl |-> None,
       gameVersions |-> << <<"1", ".", "2", "1">>, <<"Neo", "Forge">> >>],
      [id |-> JNum(<<"7">>), downloadUrl |-> Str("https://edge/f7.zip"),
       gameVersions |-> << <<"Forge">>, <<"1", ".", "8">>, <<"Quilt">> >>],
      [id |-> JNum(<<"9">>), downloadUrl |-> Str("https://edge/q.zip"),
       gameVersions |-> << <<"1", ".", "1", "7">>, NonString >>] }

\* an empty JSON object as a mod
EmptyMod ==
    [id |-> Absent, name |-> Absent, summary |-> Absent,
     logo |-> [present |-> FALSE, url |-> Absent], authors |-> <<>>, latestFiles |-> <<>>]

ModPool ==
    {[EmptyMod EXCEPT !.latestFiles = fs] : fs \in SeqsUpTo(FilePool, MaxFiles)}
    \cup {[EmptyMod EXCEPT !.id = JNum(<<"7">>), !.name = Str("All the Mods 9"),
                           !.summary = Str("A big pack"),
                           !.logo = [present |-> TRUE, url |-> Str("https://cdn/logo.png")],
                           !.authors = <<[name |-> Str("ATMTeam")]>>,
                           !.latestFiles = fs] : fs \in SeqsUpTo(FilePool, MaxFiles)}

SearchBodies ==
    { [shape |-> "malformed", data |-> <<>>], [shape |-> "array", data |-> <<>>],
      [shape |-> "object", data |-> <<>>] }
    \cup {[shape |-> "object", data |-> <<m>>] : m \in ModPool}

SearchResponses == Failures \cup NotOk \cup Ok(SearchBodies)


(***************************************************************************)
(* The pipeline: fetch_modpack_info(url), then generate_egg_json on the    *)
(* ModpackInfo it returned.  pc is the position of the invocation: each    *)
(* await of an upstream request is one step.                               *)
(***************************************************************************)
\* the characters slugs of pipeline URLs are drawn from
PipelineSlugChars == {"a", "B", "-"}

PipelineUrls ==
    {prefix \o slug \o rest :
        prefix \in {CF_PREFIX, CF_LEGACY_PREFIX, MR_PREFIX, <<"example.com/">>},
        slug \in SeqsUpTo(PipelineSlugChars, MaxSlugLen),
        rest \in {<<>>, <<"/files/", "9">>, <<"/version/", "a">>, <<"/version/", "9">>}}

\* java_version arguments of generate_egg_json
JavaOverrides == {NoOverride} \cup {Override(n) : n \in {0, 8, 16, 17, 21}}

\* settings.curseforge_api_key: empty unless configured
ApiKeys == {<<>>, Str("key")}

\* the values of the variables of the service before any of it has run
NoService ==
    /\ override = NoOverride
    /\ det = [source |-> "UNKNOWN", slug |-> None, id |-> None]
    /\ loader = None
    /\ caught = "none"
    /\ requests = <<>>
    /\ egg = NoEgg
    /\ raised = FALSE
    /\ jv = Returned(0)
    /\ before = NoCall
    /\ modCount = 0
    /\ memory = None
    /\ memory_before = None
    /\ calls = <<>>

\* the values of the variables of the HTTP API while only the service is followed
NoApi ==
    /\ listing = <<>>
    /\ users = <<>>
    /\ eggs = <<>>
    /\ pending = <<>>
    /\ last = <<>>
    /\ user_ai_configs = <<>>
    /\ ai_service = <<>>
    /\ ai_calls = <<>>

\* the values of the variables an invocation has not touched
Untouched ==
    /\ NoApi
    /\ NoService

Init ==
    /\ url \in PipelineUrls
    /\ apiKey \in ApiKeys
    /\ pc = "start"
    /\ info = ModpackInfo
    /\ mcv = None
    /\ Untouched

\* a variant of FreshInfo that starts from a count of 21 mods
FreshInfoCountsMods(source, slug, u) ==
    [ModpackInfo EXCEPT !.source = source, !.source_url = u, !.slug = slug, !.mod_count = 21]

\* the ModpackInfo a fetcher starts from
FreshInfo(source, slug, u) ==
    [ModpackInfo EXCEPT !.source = source, !.source_url = u, !.slug = slug]

\* a variant of UnknownPlaceholder that takes the URL as the slug
UnknownPlaceholderKeepsUrlAsSlug(source, u) ==
    [ModpackInfo EXCEPT
        !.name = Str("Unknown Modpack"), !.source = source, !.source_url = u, !.slug = u,
        !.description = Str("Unable to parse modpack URL. Please provide a valid CurseForge or Modrinth URL.")]

\* the placeholder fetch_modpack_info returns for a URL of no known platform
UnknownPlaceholder(source, u) ==
    [ModpackInfo EXCEPT
        !.name = Str("Unknown Modpack"), !.source = source, !.source_url = u,
        !.description = Str("Unable to parse modpack URL. Please provide a valid CurseForge or Modrinth URL.")]

\* the branch fetch_modpack_info takes on what detect_source returned
Dispatch(d) ==
    IF d.source = "MODRINTH" /\ Truthy(d.slug) THEN "modrinth"
    ELSE IF d.source = "CURSEFORGE" /\ Truthy(d.slug) THEN "curseforge"
    ELSE "unknown"

\* the ModpackInfo in hand at the first await of the fetch, or at its return
\* when it returns without awaiting
StartInfo(d, u, key) ==
    IF Dispatch(d) = "unknown" THEN UnknownPlaceholder(d.source, u)
    ELSE IF Dispatch(d) = "curseforge" /\ ~Truthy(key)
    THEN CurseforgeNoKey(FreshInfo(d.source, d.slug, u), d.slug)
    ELSE FreshInfo(d.source, d.slug, u)

\* where the fetch stands then
StartPc(d, key) ==
    IF Dispatch(d) = "modrinth" THEN "modrinth_project"
    ELSE IF Dispatch(d) = "curseforge" /\ Truthy(key) THEN "curseforge_search"
    ELSE "fetched"

\* fetch_modpack_info up to its first await: detect_source and the dispatch
Start ==
    /\ pc = "start"
    /\ \E d \in {detect_source(url)} :
          /\ det' = d
          /\ info' = StartInfo(d, url, apiKey)
          /\ pc' = StartPc(d, apiKey)
    /\ UNCHANGED <<url, override, apiKey, loader, caught, requests, egg, raised, mcv, jv, others>>

\* how the upstream answered a request
Answer(resp) ==
    IF resp.exc /= "none" THEN "no answer"
    ELSE IF resp.status = 200 THEN "200"
    ELSE "non-200"

\* a request was issued and answered, and the try block went on to r: the
\* fetcher goes to its next await, or returns (through its except branch,
\* whose outcome is handled, when r carries an exception)
Finish(call, resp, r, handled, next) ==
    LET h == IF r.exc = "none" THEN r ELSE handled
    IN  /\ requests' = Append(requests, [call |-> call, answer |-> Answer(resp)])
        /\ info' = h.i
        /\ loader' = r.loader
        /\ caught' = r.exc
        /\ raised' = (h.exc /= "none")
        /\ pc' = IF h.exc /= "none" THEN "raised"
                 ELSE IF r.exc /= "none" THEN "fetched"
                 ELSE next

ModrinthProjectStep ==
    /\ pc = "modrinth_project"
    /\ \E resp \in ProjectResponses :
          LET r == ModrinthProject(info, det.slug, resp)
          IN  Finish("modrinth:project", resp, r,
                     ModrinthHandler(r.i, det.slug, r.exc), "modrinth_versions")
    /\ UNCHANGED <<url, override, apiKey, det, egg, mcv, jv, others>>

ModrinthVersionsStep ==
    /\ pc = "modrinth_versions"
    /\ \E resp \in VersionsResponses :
          LET r == ModrinthVersions(info, det.id, resp)
          IN  Finish("modrinth:versions", resp, r,
                     ModrinthHandler(r.i, det.slug, r.exc), "fetched")
    /\ UNCHANGED <<url, override, apiKey, det, egg, mcv, jv, others>>

CurseforgeSearchStep ==
    /\ pc = "curseforge_search"
    /\ \E resp \in SearchResponses :
          LET r == CurseforgeSearch(info, det.slug, det.id, resp)
          IN  Finish("curseforge:search", resp, r,
                     CurseforgeHandler(r.i, det.slug, r.exc), "fetched")
    /\ UNCHANGED <<url, override, apiKey, det, egg, mcv, jv, others>>

\* generate_egg_json(info, java_version) on the ModpackInfo the fetch returned
Generate ==
    /\ pc = "fetched"
    /\ \E o \in JavaOverrides, now \in Times :
          /\ override' = o
          /\ egg' = generate_egg_json(info, o, now)
    /\ pc' = "done"
    /\ UNCHANGED <<url, apiKey, det, info, loader, caught, requests, raised, mcv, jv, others>>

Next ==
    \/ Start
    \/ ModrinthProjectStep
    \/ ModrinthVersionsStep
    \/ CurseforgeSearchStep
    \/ Generate

Spec == Init /\ [][Next]_vars

(***************************************************************************)
(* detect_source on its own, over every URL of up to MaxUrlLen tokens.     *)
(***************************************************************************)
UrlTokens ==
    {"curseforge.com/minecraft/modpacks/", "legacy.", "modrinth.com/modpack/",
     "/files/", "/version/", "/", "a", "9", "-"}

InitDetect ==
    /\ url \in SeqsUpTo(UrlTokens, MaxUrlLen)
    /\ apiKey = <<>>
    /\ pc = "detect"
    /\ info = ModpackInfo
    /\ mcv = None
    /\ Untouched

Detect ==
    /\ pc = "detect"
    /\ det' = detect_source(url)
    /\ pc' = "detected"
    /\ UNCHANGED <<url, override, apiKey, info, loader, caught, requests, egg, raised, mcv, jv, others>>

NextDetect == Detect

SpecDetect == InitDetect /\ [][NextDetect]_vars

(***************************************************************************)
(* _detect_java_version on its own, over None and every string of up to    *)
(* MaxVerLen characters.                                                   *)
(***************************************************************************)
InitJava ==
    /\ url = <<>>
    /\ apiKey = <<>>
    /\ pc = "java"
    /\ info = ModpackInfo
    /\ mcv \in {None} \cup SeqsUpTo(VerChars, MaxVerLen)
    /\ Untouched

DetectJava ==
    /\ pc = "java"
    /\ jv' = _detect_java_version(mcv)
    /\ pc' = "java_done"
    /\ UNCHANGED <<url, override, apiKey, det, info, loader, caught, requests, egg, raised, mcv, others>>

NextJava == DetectJava

SpecJava == InitJava /\ [][NextJava]_vars

(***************************************************************************)
(* generate_egg_json on its own, over ModpackInfo values of every          *)
(* modloader, with and without the optional fields.                        *)
(***************************************************************************)
GenInfos ==
    {[ModpackInfo EXCEPT
         !.name = Str("Pack"), !.source = "MODRINTH", !.slug = Str("pack"),
         !.source_url = MR_PREFIX \o Str("pack"),
         !.description = d, !.minecraft_version = mc, !.modloader = ml,
         !.modloader_version = lv, !.java_version = j, !.download_url = dl,
         !.mod_count = n] :
        d \in {None, Str("A big pack")},
        mc \in {None, <<"1", ".", "1", "2", ".", "2">>},
        ml \in ModpackType \cup {None},
        lv \in {None, <<>>, Str("47.2.0")},
        j \in {8, 16, 17, 21},
        dl \in {None, <<>>, Str("https://cdn/pack.mrpack")},
        n \in {0, 21, 201}}

InitGen ==
    /\ url = <<>>
    /\ apiKey = <<>>
    /\ pc = "fetched"
    /\ info \in GenInfos
    /\ mcv = None
    /\ Untouched

\* generate_egg_json called once more on the same ModpackInfo
GenerateAgain ==
    /\ pc = "done"
    /\ before' = [egg |-> egg, override |-> override]
    /\ \E o \in JavaOverrides, now \in Times :
          /\ override' = o
          /\ egg' = generate_egg_json(info, o, now)
    /\ pc' = "again"
    /\ UNCHANGED <<url, apiKey, det, info, loader, caught, requests, raised, mcv, jv,
                   modCount, memory, memory_before, calls, api>>

NextGen ==
    \/ Generate
    \/ GenerateAgain

SpecGen == InitGen /\ [][NextGen]_vars

(***************************************************************************)
(* _get_recommended_memory on its own: a series of calls, each with a      *)
(* mod_count no smaller than the one before, up to MaxModCount.            *)
(***************************************************************************)
\* largest mod_count handed to _get_recommended_memory
MaxModCount == 205

InitMemory ==
    /\ url = <<>>
    /\ apiKey = <<>>
    /\ pc = "memory"
    /\ info = ModpackInfo
    /\ mcv = None
    /\ Untouched

RecommendMemory ==
    /\ pc = "memory"
    /\ \E n \in modCount..MaxModCount :
          /\ modCount' = n
          /\ memory' = _get_recommended_memory(n)
    /\ memory_before' = memory
    /\ UNCHANGED <<url, override, apiKey, pc, det, info, loader, caught, requests, egg,
                   raised, mcv, jv, before, calls, api>>

NextMemory == RecommendMemory

SpecMemory == InitMemory /\ [][NextMemory]_vars

(***************************************************************************)
(* Concurrent invocations on the one ModpackService (modpack_service, the  *)
(* module-level singleton every request handler gets).  The coroutines run *)
(* on one event loop: an invocation runs without interruption from one     *)
(* await to the next, and the invocations interleave at the awaits.  Each  *)
(* call of a fetcher creates its ModpackInfo object and keeps a reference  *)
(* to it in its local variable info; calls.infos are the objects created   *)
(* so far, calls.running the local variables of each invocation.           *)
(***************************************************************************)
\* number of invocations running at once
NumCalls == 2

Invocations == 1..NumCalls

ConcUrls ==
    {MR_PREFIX \o <<"a", "-", "B">>, CF_PREFIX \o <<"a">>, <<"example.com/", "a">>}

ConcProjectResponses ==
    {r \in ProjectResponses :
        \/ r.exc = "ReadTimeout"
        \/ r.exc = "none" /\ r.status = 404
        \/ r.exc = "none" /\ r.status = 200 /\ r.body.shape = "object"
           /\ r.body.title = Str("All the Mods 9")}

ConcVersionsResponses ==
    {r \in VersionsResponses :
        r.exc = "none" /\ r.status = 200 /\ r.body.shape = "array"
        /\ Len(r.body.items) = 1 /\ r.body.items[1].id = Str("a")}

ConcSearchResponses ==
    {r \in SearchResponses :
        \/ r.exc = "ReadTimeout"
        \/ r.exc = "none" /\ r.status = 200 /\ r.body.shape = "object"
           /\ Len(r.body.data) = 1 /\ r.body.data[1].name = Str("All the Mods 9")
           /\ Len(r.body.data[1].latestFiles) = 1
           /\ r.body.data[1].latestFiles[1].id = JNum(<<"7">>)}

\* the local variables of an invocation that has not started
NotStarted(u) ==
    [url |-> u, pc |-> "start", det |-> [source |-> "UNKNOWN", slug |-> None, id |-> None],
     info |-> 0, got |-> <<>>, override |-> NoOverride, egg |-> NoEgg]

InitConcurrent ==
    /\ url = <<>>
    /\ apiKey = Str("key")
    /\ pc = "concurrent"
    /\ info = ModpackInfo
    /\ mcv = None
    /\ override = NoOverride
    /\ det = [source |-> "UNKNOWN", slug |-> None, id |-> None]
    /\ loader = None
    /\ caught = "none"
    /\ requests = <<>>
    /\ egg = NoEgg
    /\ raised = FALSE
    /\ jv = Returned(0)
    /\ before = NoCall
    /\ modCount = 0
    /\ memory = None
    /\ memory_before = None
    /\ NoApi
    /\ \E us \in [Invocations -> ConcUrls] :
          calls = [infos |-> <<>>, running |-> [p \in Invocations |-> NotStarted(us[p])]]

\* a variant of NewInfo that keeps the one ModpackInfo of the service
NewInfoOnService(infos) == 1

\* ModpackInfo(...): the reference to the object the constructor creates
NewInfo(infos) == Len(infos) + 1

\* the objects after the object at reference k was given the value i
Store(infos, k, i) ==
    IF k > Len(infos) THEN Append(infos, i) ELSE [infos EXCEPT ![k] = i]

\* invocation p of fetch_modpack_info up to its first await
FetchStart(p) ==
    LET me == calls.running[p]
        d == detect_source(me.url)
        k == NewInfo(calls.infos)
    IN  /\ me.pc = "start"
        /\ calls' = [infos |-> Store(calls.infos, k, StartInfo(d, me.url, apiKey)),
                     running |-> [calls.running EXCEPT
                                     ![p] = [me EXCEPT !.det = d, !.info = k,
                                                       !.pc = StartPc(d, apiKey)]]]
        /\ UNCHANGED single

\* invocation p got the answer resp to its request, and its try block went on
\* to r: it goes to its next await, or returns
FetchOn(p, resp, r, handled, next) ==
    LET me == calls.running[p]
        h == IF r.exc = "none" THEN r ELSE handled
    IN  calls' = [infos |-> Store(calls.infos, me.info, h.i),
                  running |-> [calls.running EXCEPT
                                  ![p] = [me EXCEPT
                                            !.got = Append(me.got, resp),
                                            !.pc = IF r.exc /= "none" THEN "fetched"
                                                   ELSE next]]]

FetchModrinthProject(p) ==
    LET me == calls.running[p]
    IN  /\ me.pc = "modrinth_project"
        /\ \E resp \in ConcProjectResponses :
              LET r == ModrinthProject(calls.infos[me.info], me.det.slug, resp)
              IN  FetchOn(p, resp, r, ModrinthHandler(r.i, me.det.slug, r.exc),
                          "modrinth_versions")
        /\ UNCHANGED single

FetchModrinthVersions(p) ==
    LET me == calls.running[p]
    IN  /\ me.pc = "modrinth_versions"
        /\ \E resp \in ConcVersionsResponses :
              LET r == ModrinthVersions(calls.infos[me.info], me.det.id, resp)
              IN  FetchOn(p, resp, r, ModrinthHandler(r.i, me.det.slug, r.exc), "fetched")
        /\ UNCHANGED single

FetchCurseforgeSearch(p) ==
    LET me == calls.running[p]
    IN  /\ me.pc = "curseforge_search"
        /\ \E resp \in ConcSearchResponses :
              LET r == CurseforgeSearch(calls.infos[me.info], me.det.slug, me.det.id, resp)
              IN  FetchOn(p, resp, r, CurseforgeHandler(r.i, me.det.slug, r.exc), "fetched")
        /\ UNCHANGED single

\* invocation p calls generate_egg_json on the ModpackInfo its fetch returned
GenerateOf(p) ==
    LET me == calls.running[p]
    IN  /\ me.pc = "fetched"
        /\ \E now \in Times :
              calls' = [calls EXCEPT
                           !.running[p] = [me EXCEPT
                               !.egg = generate_egg_json(calls.infos[me.info],
                                                         me.override, now),
                               !.pc = "done"]]
        /\ UNCHANGED single

NextConcurrent ==
    \/ \E p \in Invocations : FetchStart(p)
    \/ \E p \in Invocations : FetchModrinthProject(p)
    \/ \E p \in Invocations : FetchModrinthVersions(p)
    \/ \E p \in Invocations : FetchCurseforgeSearch(p)
    \/ \E p \in Invocations : GenerateOf(p)

SpecConcurrent == InitConcurrent /\ [][NextConcurrent]_vars

\* what a fetcher returns when r is where its try block stopped
Handled(r, handled) == IF r.exc = "none" THEN r.i ELSE handled.i

\* fetch_modpack_info(u) run on its own with the answers got from the upstream
FetchAlone(u, key, got) ==
    LET d == detect_source(u)
        i == StartInfo(d, u, key)
        search == CurseforgeSearch(i, d.slug, d.id, got[1])
        project == ModrinthProject(i, d.slug, got[1])
        versions == ModrinthVersions(project.i, d.id, got[2])
    IN  IF StartPc(d, key) = "fetched" THEN i
        ELSE IF StartPc(d, key) = "curseforge_search"
        THEN Handled(search, CurseforgeHandler(search.i, d.slug, search.exc))
        ELSE IF project.exc /= "none"
        THEN Handled(project, ModrinthHandler(project.i, d.slug, project.exc))
        ELSE Handled(versions, ModrinthHandler(versions.i, d.slug, versions.exc))

(***************************************************************************)
(* The egg endpoints of backend/app/api/eggs.py over the egg_configs       *)
(* table.  A table is the set of its rows; a new row gets the id after the *)
(* largest one in the table, as SQLite's INTEGER PRIMARY KEY does.  Of an  *)
(* egg the model keeps the columns the handlers decide on or a request can *)
(* change: owner_id, visibility and json_data.  json_data is "generated"   *)
(* when generate_egg_json produced it and "edited" when an update request  *)
(* supplied it.  Every request here has passed get_current_user, and its   *)
(* handler runs to its answer before the next request starts; the users    *)
(* are one admin and two plain users, none of whom changes.                *)
(***************************************************************************)
\* most rows of the egg_configs table
MaxEggs == 1

\* models/user.py, UserRole
ADMIN == "admin"
USER == "user"

\* models/egg.py, Visibility
PUBLIC == "public"
PRIVATE == "private"

\* a field an update request leaves out (exclude_unset drops it), a query parameter left out
Unset == "<unset>"

Generated == "generated"
Edited == "edited"

\* the largest of a set of naturals, 0 for the empty set
Largest(S) == IF S = {} THEN 0 ELSE CHOOSE n \in S : \A m \in S : m <= n

\* the id the database gives the next row of a table
NextId(table) == Largest({row.id : row \in table}) + 1

\* the row of a table with the given id, as a set: empty when there is none
RowsOf(table, id) == {row \in table : row.id = id}

EggUsers ==
    {[id |-> 1, role |-> ADMIN, is_active |-> TRUE],
     [id |-> 2, role |-> USER, is_active |-> TRUE],
     [id |-> 3, role |-> USER, is_active |-> TRUE]}

\* no request answered yet
NoUser == [id |-> 0, role |-> USER, is_active |-> FALSE]
NoQuery == [visibility |-> Unset, skip |-> 0]

NoAnswer ==
    [endpoint |-> "none", by |-> NoUser, target |-> 0, query |-> NoQuery, status |-> 0,
     returned |-> {}]

Answered(endpoint, current_user, target, status, returned) ==
    [endpoint |-> endpoint, by |-> current_user, target |-> target, query |-> NoQuery,
     status |-> status, returned |-> returned]

\* list_eggs' where clause: the rows a user's listing may hold
Listed(current_user, e) ==
    \/ current_user.role = ADMIN
    \/ e.owner_id = current_user.id
    \/ e.visibility = PUBLIC

\* a variant of ViewForbidden that refuses nobody
ViewForbiddenForNobody(current_user, e) == FALSE

\* get_egg's and export_egg_json's permission check: the request is refused
ViewForbidden(current_user, e) ==
    /\ current_user.role /= ADMIN
    /\ e.owner_id /= current_user.id
    /\ e.visibility /= PUBLIC

\* a variant of ChangeForbidden that lets everybody change a public egg
ChangeForbiddenUnlessPublic(current_user, e) ==
    /\ current_user.role /= ADMIN
    /\ e.owner_id /= current_user.id
    /\ e.visibility /= PUBLIC

\* update_egg's, delete_egg's and regenerate_egg's permission check
ChangeForbidden(current_user, e) ==
    /\ current_user.role /= ADMIN
    /\ e.owner_id /= current_user.id

\* the variables the egg endpoints leave alone
notEggs == <<service, pc, listing, users, pending, user_ai_configs, ai_service, ai_calls>>

InitEggs ==
    /\ url = <<>>
    /\ apiKey = <<>>
    /\ pc = "eggs"
    /\ info = ModpackInfo
    /\ mcv = None
    /\ NoService
    /\ listing = <<>>
    /\ users = EggUsers
    /\ eggs = {}
    /\ pending = <<>>
    /\ last = NoAnswer
    /\ user_ai_configs = <<>>
    /\ ai_service = <<>>
    /\ ai_calls = <<>>

\* POST /eggs
create_egg_from_url ==
    \E current_user \in users, visibility \in {PUBLIC, PRIVATE} :
        LET e == [id |-> NextId(eggs), owner_id |-> current_user.id,
                  visibility |-> visibility, json_data |-> Generated]
        IN  /\ pc = "eggs"
            /\ e.id <= MaxEggs
            /\ eggs' = eggs \cup {e}
            /\ last' = Answered("create_egg_from_url", current_user, e.id, 201, {e})
            /\ UNCHANGED notEggs

\* the rows of a result after OFFSET skip, in id order
Offset(rows, skip) == {e \in rows : Cardinality({f \in rows : f.id < e.id}) >= skip}

\* GET /eggs; the default limit of 100 rows is more than the table holds
list_eggs ==
    \E current_user \in users, visibility \in {Unset, PUBLIC, PRIVATE}, skip \in {0, 1} :
        LET permitted == {e \in eggs : Listed(current_user, e)}
            filtered == IF visibility /= Unset
                        THEN {e \in permitted : e.visibility = visibility}
                        ELSE permitted
        IN  /\ pc = "eggs"
            /\ last' = [Answered("list_eggs", current_user, 0, 200, Offset(filtered, skip))
                           EXCEPT !.query = [visibility |-> visibility, skip |-> skip]]
            /\ UNCHANGED <<eggs, notEggs>>

\* GET /eggs/{egg_id}
get_egg ==
    \E current_user \in users, egg_id \in 1..MaxEggs :
        LET found == RowsOf(eggs, egg_id)
        IN  /\ pc = "eggs"
            /\ last' = IF found = {}
                       THEN Answered("get_egg", current_user, egg_id, 404, {})
                       ELSE IF \E e \in found : ViewForbidden(current_user, e)
                       THEN Answered("get_egg", current_user, egg_id, 403, {})
                       ELSE Answered("get_egg", current_user, egg_id, 200, found)
            /\ UNCHANGED <<eggs, notEggs>>

\* GET /eggs/{egg_id}/export; returned holds the row whose json_data is the answer
export_egg_json ==
    \E current_user \in users, egg_id \in 1..MaxEggs :
        LET found == RowsOf(eggs, egg_id)
        IN  /\ pc = "eggs"
            /\ last' = IF found = {}
                       THEN Answered("export_egg_json", current_user, egg_id, 404, {})
                       ELSE IF \E e \in found : ViewForbidden(current_user, e)
                       THEN Answered("export_egg_json", current_user, egg_id, 403, {})
                       ELSE Answered("export_egg_json", current_user, egg_id, 200, found)
            /\ UNCHANGED <<eggs, notEggs>>

\* the request bodies of update_egg (EggConfigUpdate)
EggUpdates == [visibility : {Unset, PUBLIC, PRIVATE}, json_data : {Unset, Edited}]

\* setattr for every field the request body sets
EggUpdated(e, body) ==
    [e EXCEPT !.visibility = IF body.visibility = Unset THEN @ ELSE body.visibility,
              !.json_data = IF body.json_data = Unset THEN @ ELSE body.json_data]

\* what a changing endpoint does: 404, 403, or the change and its answer
Change(endpoint, current_user, egg_id, status, after) ==
    LET found == RowsOf(eggs, egg_id)
    IN  IF found = {}
        THEN /\ last' = Answered(endpoint, current_user, egg_id, 404, {})
             /\ UNCHANGED eggs
        ELSE IF \E e \in found : ChangeForbidden(current_user, e)
        THEN /\ last' = Answered(endpoint, current_user, egg_id, 403, {})
             /\ UNCHANGED eggs
        ELSE /\ eggs' = (eggs \ found) \cup UNION {after[e] : e \in found}
             /\ last' = Answered(endpoint, current_user, egg_id, status,
                                 UNION {after[e] : e \in found})

\* PATCH /eggs/{egg_id}
update_egg ==
    \E current_user \in users, egg_id \in 1..MaxEggs, body \in EggUpdates :
        LET after == [e \in eggs |-> {EggUpdated(e, body)}]
        IN  /\ pc = "eggs"
            /\ Change("update_egg", current_user, egg_id, 200, after)
            /\ UNCHANGED notEggs

\* DELETE /eggs/{egg_id}
delete_egg ==
    \E current_user \in users, egg_id \in 1..MaxEggs :
        LET after == [e \in eggs |-> {}]
        IN  /\ pc = "eggs"
            /\ Change("delete_egg", current_user, egg_id, 204, after)
            /\ UNCHANGED notEggs

\* POST /eggs/{egg_id}/regenerate
regenerate_egg ==
    \E current_user \in users, egg_id \in 1..MaxEggs :
        LET after == [e \in eggs |-> {[e EXCEPT !.json_data = Generated]}]
        IN  /\ pc = "eggs"
            /\ Change("regenerate_egg", current_user, egg_id, 200, after)
            /\ UNCHANGED notEggs

NextEggs ==
    \/ create_egg_from_url
    \/ list_eggs
    \/ get_egg
    \/ export_egg_json
    \/ update_egg
    \/ delete_egg
    \/ regenerate_egg

SpecEggs == InitEggs /\ [][NextEggs]_vars

(***************************************************************************)
(* The user endpoints of backend/app/api/auth.py, users.py and admin.py    *)
(* over the users table, after create_default_admin of main.py.  Of a user *)
(* the model keeps id, role and is_active; the unique username and email   *)
(* show only as the answer 400 of a creation that found them taken.        *)
(*                                                                         *)
(* A request first runs get_current_user, which loads the requester's row  *)
(* into the request's session, and then its handler.  Both await the       *)
(* database, so another request can run in between: pending is a request   *)
(* that has loaded its current_user and whose handler has not run yet.     *)
(* The handler works on the loaded current_user, also when it looks up the *)
(* row of the same id (the session's identity map hands out the loaded     *)
(* object), and a commit writes the columns whose value the handler has    *)
(* changed.                                                                *)
(***************************************************************************)
\* most rows the users table ever holds
MaxUsers == 2

\* core/config.py, settings.registration_enabled
registration_enabled == TRUE

\* the request bodies of the user updates (UserUpdate): role and is_active as JSON
UserUpdates == [role : {Unset, ADMIN, USER}, is_active : {Unset, "true", "false"}]

\* the variables the user endpoints leave alone
notUsers == <<service, listing, eggs, user_ai_configs, ai_service, ai_calls>>

InitUsers ==
    /\ url = <<>>
    /\ apiKey = <<>>
    /\ pc = "startup"
    /\ info = ModpackInfo
    /\ mcv = None
    /\ NoService
    /\ listing = <<>>
    /\ users = {}
    /\ eggs = {}
    /\ pending = NoUser
    /\ last = NoAnswer
    /\ user_ai_configs = <<>>
    /\ ai_service = <<>>
    /\ ai_calls = <<>>

\* main.py: the lifespan's startup step
create_default_admin ==
    /\ pc = "startup"
    /\ pc' = "serving"
    /\ users' = IF users /= {} THEN users
                ELSE {[id |-> NextId(users), role |-> ADMIN, is_active |-> TRUE]}
    /\ UNCHANGED <<pending, last, notUsers>>

\* the process stops and starts again on the same database; a waiting request is lost
Restart ==
    /\ pc = "serving"
    /\ pc' = "startup"
    /\ pending' = NoUser
    /\ UNCHANGED <<users, last, notUsers>>

\* the answer of a user endpoint: who asked, for which user, and the status
UserAnswered(endpoint, current_user, target, status) ==
    Answered(endpoint, current_user, target, status, {})

\* get_current_user of a request whose handler runs later: 401 without a row, 403 when
\* the row is inactive, else the row is loaded
get_current_user ==
    \E id \in 1..MaxUsers :
        LET found == RowsOf(users, id)
        IN  /\ pc = "serving"
            /\ pending = NoUser
            /\ IF found = {}
               THEN /\ last' = UserAnswered("get_current_user", NoUser, id, 401)
                    /\ UNCHANGED pending
               ELSE \E user \in found :
                        IF ~user.is_active
                        THEN /\ last' = UserAnswered("get_current_user", user, id, 403)
                             /\ UNCHANGED pending
                        ELSE /\ pending' = user
                             /\ UNCHANGED last
            /\ UNCHANGED <<pc, users, notUsers>>

\* the handler of a request runs with current_user: the request that waited, or one that
\* passes get_current_user now
Turn(current_user) ==
    /\ pc = "serving"
    /\ \/ /\ pending /= NoUser
          /\ current_user = pending
          /\ pending' = NoUser
       \/ /\ current_user \in users
          /\ current_user.is_active
          /\ UNCHANGED pending

Requesters == users \cup {pending}

\* the object a handler gets for the row: the loaded current_user for its own id
Loaded(current_user, row) == IF row.id = current_user.id THEN current_user ELSE row

\* the row after the commit of setattr for every field of the body: the columns whose
\* value changed on the loaded object are written
Committed(row, loaded, body) ==
    LET is_active == body.is_active = "true"
    IN  [row EXCEPT !.role = IF body.role /= Unset /\ body.role /= loaded.role
                             THEN body.role ELSE @,
                    !.is_active = IF body.is_active /= Unset /\ is_active /= loaded.is_active
                                  THEN is_active ELSE @]

\* POST /auth/register
register ==
    \E taken \in BOOLEAN :
        LET user == [id |-> NextId(users), role |-> USER, is_active |-> TRUE]
        IN  /\ pc = "serving"
            /\ IF ~registration_enabled
               THEN /\ last' = UserAnswered("register", NoUser, 0, 403)
                    /\ UNCHANGED users
               ELSE IF taken
               THEN /\ last' = UserAnswered("register", NoUser, 0, 400)
                    /\ UNCHANGED users
               ELSE /\ user.id <= MaxUsers
                    /\ users' = users \cup {user}
                    /\ last' = UserAnswered("register", NoUser, user.id, 201)
            /\ UNCHANGED <<pc, pending, notUsers>>

\* a variant of update_current_user that applies role and is_active of the body as well
UpdateCurrentUserAppliesEveryField ==
    \E current_user \in Requesters, body \in UserUpdates :
        LET found == RowsOf(users, current_user.id)
        IN  /\ Turn(current_user)
            /\ users' = (users \ found) \cup {Committed(user, current_user, body) : user \in found}
            /\ last' = UserAnswered("update_current_user", current_user, current_user.id,
                                    IF found = {} THEN 500 ELSE 200)
            /\ UNCHANGED <<pc, notUsers>>

\* PATCH /users/me
update_current_user ==
    \E current_user \in Requesters, body \in UserUpdates :
        /\ Turn(current_user)
        /\ last' = UserAnswered("update_current_user", current_user, current_user.id,
                                IF RowsOf(users, current_user.id) = {} THEN 500 ELSE 200)
        /\ UNCHANGED <<pc, users, notUsers>>

\* PATCH /users/{user_id}
users_update_user ==
    \E current_user \in Requesters, user_id \in 1..MaxUsers, body \in UserUpdates :
        LET found == RowsOf(users, user_id)
            answer(status) == UserAnswered("users_update_user", current_user, user_id, status)
        IN  /\ Turn(current_user)
            /\ IF current_user.role /= ADMIN
               THEN last' = answer(403) /\ UNCHANGED users
               ELSE IF found = {}
               THEN last' = answer(404) /\ UNCHANGED users
               ELSE /\ users' = (users \ found) \cup
                                {Committed(user, Loaded(current_user, user), body) : user \in found}
                    /\ last' = answer(200)
            /\ UNCHANGED <<pc, notUsers>>

\* DELETE /users/{user_id}
users_delete_user ==
    \E current_user \in Requesters, user_id \in 1..MaxUsers :
        LET found == RowsOf(users, user_id)
            answer(status) ==
                UserAnswered("users_delete_user", current_user, user_id, status)
        IN  /\ Turn(current_user)
            /\ IF current_user.role /= ADMIN
               THEN last' = answer(403) /\ UNCHANGED users
               ELSE IF user_id = current_user.id
               THEN last' = answer(400) /\ UNCHANGED users
               ELSE IF found = {}
               THEN last' = answer(404) /\ UNCHANGED users
               ELSE users' = users \ found /\ last' = answer(204)
            /\ UNCHANGED <<pc, notUsers>>

\* POST /admin/users
admin_create_user ==
    \E current_user \in Requesters, role \in {ADMIN, USER}, is_active \in BOOLEAN,
       taken \in BOOLEAN :
        LET user == [id |-> NextId(users), role |-> role, is_active |-> is_active]
            answer(status) ==
                UserAnswered("admin_create_user", current_user, user.id, status)
        IN  /\ Turn(current_user)
            /\ IF current_user.role /= ADMIN
               THEN last' = answer(403) /\ UNCHANGED users
               ELSE IF taken
               THEN last' = answer(400) /\ UNCHANGED users
               ELSE /\ user.id <= MaxUsers
                    /\ users' = users \cup {user}
                    /\ last' = answer(201)
            /\ UNCHANGED <<pc, notUsers>>

\* session.get(User, user_id): the identity map answers for the requester's own id
SessionGet(current_user, user_id) ==
    IF user_id = current_user.id THEN {current_user} ELSE RowsOf(users, user_id)

\* PATCH /admin/users/{user_id}
admin_update_user ==
    \E current_admin \in Requesters, user_id \in 1..MaxUsers, body \in UserUpdates :
        LET got == SessionGet(current_admin, user_id)
            found == RowsOf(users, user_id)
            answer(status) == UserAnswered("admin_update_user", current_admin, user_id, status)
        IN  /\ Turn(current_admin)
            /\ IF current_admin.role /= ADMIN
               THEN last' = answer(403) /\ UNCHANGED users
               ELSE IF got = {}
               THEN last' = answer(404) /\ UNCHANGED users
               ELSE IF user_id = current_admin.id /\ body.role = USER
               THEN last' = answer(400) /\ UNCHANGED users
               ELSE IF user_id = current_admin.id /\ body.is_active = "false"
               THEN last' = answer(400) /\ UNCHANGED users
               ELSE IF found = {}
               THEN last' = answer(500) /\ UNCHANGED users
               ELSE /\ users' = (users \ found) \cup
                                {Committed(user, Loaded(current_admin, user), body) : user \in found}
                    /\ last' = answer(200)
            /\ UNCHANGED <<pc, notUsers>>

\* DELETE /admin/users/{user_id}
admin_delete_user ==
    \E current_admin \in Requesters, user_id \in 1..MaxUsers :
        LET got == SessionGet(current_admin, user_id)
            found == RowsOf(users, user_id)
            answer(status) ==
                UserAnswered("admin_delete_user", current_admin, user_id, status)
        IN  /\ Turn(current_admin)
            /\ IF current_admin.role /= ADMIN
               THEN last' = answer(403) /\ UNCHANGED users
               ELSE IF got = {}
               THEN last' = answer(404) /\ UNCHANGED users
               ELSE IF user_id = current_admin.id
               THEN last' = answer(400) /\ UNCHANGED users
               ELSE users' = users \ found /\ last' = answer(200)
            /\ UNCHANGED <<pc, notUsers>>

NextUsers ==
    \/ create_default_admin
    \/ Restart
    \/ get_current_user
    \/ register
    \/ update_current_user
    \/ users_update_user
    \/ users_delete_user
    \/ admin_create_user
    \/ admin_update_user
    \/ admin_delete_user

SpecUsers == InitUsers /\ [][NextUsers]_vars

(***************************************************************************)
(* The selection of a version or file on its own: the upstream answers 200 *)
(* with a list the state keeps, so that what the fetcher stored can be     *)
(* held against the list it chose from.                                    *)
(***************************************************************************)
\* the versions of the pipeline's pool and four more that differ in their dependencies
SelectVersionPool ==
    VersionPool \cup
    { [EmptyVersion EXCEPT
          !.id = Str("c"),
          !.game_versions = << <<"1", ".", "1", "9", ".", "2">> >>,
          !.loaders = << <<"fabric">> >>,
          !.dependencies = << [project_id |-> Str("loader"), version_id |-> Str("0.15")],
                              [project_id |-> Str("fabric-api"), version_id |-> Str("fapi")] >>],
      [EmptyVersion EXCEPT
          !.id = Str("d"),
          !.game_versions = << <<"1", ".", "1", "6", ".", "5">> >>,
          !.loaders = << <<"forge">> >>,
          !.dependencies = << [project_id |-> Str("x"), version_id |-> Str("36.1")],
                              [project_id |-> Str("y"), version_id |-> Str("36.2")],
                              [project_id |-> Str("z"), version_id |-> <<>>] >>],
      [EmptyVersion EXCEPT
          !.id = Str("e"),
          !.game_versions = << <<"1", ".", "1", "8", ".", "2">> >>,
          !.dependencies = << [project_id |-> Str("x"), version_id |-> Str("40.2")] >>],
      [EmptyVersion EXCEPT
          !.id = Str("f"),
          !.loaders = << <<"fabric">> >>,
          !.dependencies = << [project_id |-> Str("P7dR8mSH"), version_id |-> Str("fapi")] >>] }

\* the version ids and file ids a URL can carry: none, or a string
VersionIds == {None, Str("a"), Str("9"), Str("d"), Str("zz")}
FileIds == {None, Str("9"), Str("99"), Str("7"), Str("5")}

Listings ==
    {[platform |-> "MODRINTH", versions |-> vs, files |-> <<>>, id |-> id] :
        vs \in SeqsUpTo(SelectVersionPool, MaxVersions), id \in VersionIds}
    \cup {[platform |-> "CURSEFORGE", versions |-> <<>>, files |-> fs, id |-> id] :
            fs \in SeqsUpTo(FilePool, MaxFiles), id \in FileIds}

InitSelect ==
    /\ url = Str("https://example.org/pack")
    /\ apiKey = Str("key")
    /\ pc = "select"
    /\ listing \in Listings
    /\ info = FreshInfo(listing.platform, <<"-">>, url)
    /\ mcv = None
    /\ NoService
    /\ users = <<>>
    /\ eggs = <<>>
    /\ pending = <<>>
    /\ last = <<>>
    /\ user_ai_configs = <<>>
    /\ ai_service = <<>>
    /\ ai_calls = <<>>

\* the variables a fetcher's step leaves alone
notFetch ==
    <<url, override, apiKey, det, egg, mcv, jv, before, modCount, memory, memory_before, calls,
      listing, users, eggs, pending, last, user_ai_configs, ai_service, ai_calls>>

\* _fetch_modrinth_info from the answer to GET /project/{slug}/version on
SelectVersion ==
    /\ pc = "select"
    /\ listing.platform = "MODRINTH"
    /\ \E resp \in Ok({[shape |-> "array", items |-> listing.versions]}) :
          LET r == ModrinthVersions(info, listing.id, resp)
          IN  Finish("modrinth:versions", resp, r,
                     ModrinthHandler(r.i, info.slug, r.exc), "fetched")
    /\ UNCHANGED notFetch

\* _fetch_curseforge_info from the answer to GET /mods/search on
SelectFile ==
    /\ pc = "select"
    /\ listing.platform = "CURSEFORGE"
    /\ \E resp \in Ok({[shape |-> "object",
                        data |-> <<[EmptyMod EXCEPT !.latestFiles = listing.files]>>]}) :
          LET r == CurseforgeSearch(info, info.slug, listing.id, resp)
          IN  Finish("curseforge:search", resp, r,
                     CurseforgeHandler(r.i, info.slug, r.exc), "fetched")
    /\ UNCHANGED notFetch

NextSelect == SelectVersion \/ SelectFile

SpecSelect == InitSelect /\ [][NextSelect]_vars

(***************************************************************************)
(* The AI endpoints of backend/app/api/ai.py on the one AIService of       *)
(* services/ai_service.py.  The handlers are coroutines of one event loop: *)
(* a handler runs without interruption from one await that suspends to the *)
(* next.  get_current_user awaits the database before the handler starts,  *)
(* and process awaits client.post; between ai.configure(config) and that   *)
(* post the handler awaits only clean_name, process and _get_client,       *)
(* coroutines that reach no suspending await before the post, so the       *)
(* stretch from the lookup of the user's AIConfig to the issued request is *)
(* one step.  Of an AIConfig the model keeps enabled, api_endpoint,        *)
(* api_key and model; max_tokens and temperature are copied like model.    *)
(***************************************************************************)
AiUsers == {1, 2}

\* _user_ai_configs.get(user_id) of a user without an entry
NoConfig == [enabled |-> FALSE, api_endpoint |-> None, api_key |-> None, model |-> None]

\* the AIConfig values a user stores
AiConfigs ==
    { [enabled |-> TRUE, api_endpoint |-> <<"https://a.example/v1">>, api_key |-> Str("key-a"),
       model |-> Str("model-a")],
      [enabled |-> TRUE, api_endpoint |-> <<"http://b.example/v1", "/">>, api_key |-> <<>>,
       model |-> Str("model-b")],
      [enabled |-> TRUE, api_endpoint |-> <<"https://c.example/v1", "/chat/completions">>,
       api_key |-> Str("key-c"), model |-> <<>>],
      [enabled |-> FALSE, api_endpoint |-> <<"https://a.example/v1">>, api_key |-> Str("key-a"),
       model |-> Str("model-a")] }

\* no request issued
NoRequest == [endpoint |-> None, authorization |-> None, model |-> None]

\* a handler that has not been called, or has answered
Idle == [pc |-> "idle", user |-> 0, sent |-> NoRequest]

\* a variant of configure that keeps a configuration the service already has
ConfigureOnlyOnce(self, config) ==
    IF self.config = NoConfig THEN [config |-> config, client |-> FALSE]
    ELSE [self EXCEPT !.client = FALSE]

\* AIService.configure
configure(self, config) == [config |-> config, client |-> FALSE]

\* AIService.is_enabled
is_enabled(self) ==
    /\ self.config /= NoConfig
    /\ self.config.enabled
    /\ self.config.api_endpoint /= <<>>
    /\ self.config.model /= <<>>

\* str.rstrip("/")
RECURSIVE RStripSlash(_)
RStripSlash(s) ==
    IF s /= <<>> /\ s[Len(s)] = "/" THEN RStripSlash(SubSeq(s, 1, Len(s) - 1)) ELSE s

\* the URL process posts to
ChatEndpoint(api_endpoint) ==
    LET endpoint == RStripSlash(api_endpoint)
    IN  IF endpoint /= <<>> /\ endpoint[Len(endpoint)] = "/chat/completions" THEN endpoint
        ELSE endpoint \o <<"/chat/completions">>

\* the request process builds from the configuration the service holds
BuiltFrom(config) ==
    [endpoint |-> ChatEndpoint(config.api_endpoint),
     authorization |-> IF config.api_key /= <<>> THEN <<"Bearer ">> \o config.api_key ELSE None,
     model |-> config.model]

\* the variables the AI endpoints leave alone
notAi == <<service, pc, listing, users, eggs, pending, last>>

InitAi ==
    /\ url = <<>>
    /\ apiKey = <<>>
    /\ pc = "ai"
    /\ info = ModpackInfo
    /\ mcv = None
    /\ NoService
    /\ listing = <<>>
    /\ users = <<>>
    /\ eggs = <<>>
    /\ pending = <<>>
    /\ last = <<>>
    /\ user_ai_configs = [u \in AiUsers |-> NoConfig]
    /\ ai_service = [config |-> NoConfig, client |-> FALSE]
    /\ ai_calls = [h \in Invocations |-> Idle]

\* PUT /ai/config
update_ai_config ==
    \E u \in AiUsers, config \in AiConfigs :
        /\ pc = "ai"
        /\ user_ai_configs' = [user_ai_configs EXCEPT ![u] = config]
        /\ UNCHANGED <<ai_service, ai_calls, notAi>>

\* DELETE /ai/config
disable_ai ==
    \E u \in AiUsers :
        /\ pc = "ai"
        /\ user_ai_configs' = [user_ai_configs EXCEPT ![u] = NoConfig]
        /\ UNCHANGED <<ai_service, ai_calls, notAi>>

\* get_current_user of a POST /ai/clean-name request
AiRequest(h) ==
    \E u \in AiUsers :
        /\ pc = "ai"
        /\ ai_calls[h].pc = "idle"
        /\ ai_calls' = [ai_calls EXCEPT ![h] = [pc |-> "authenticated", user |-> u,
                                                sent |-> NoRequest]]
        /\ UNCHANGED <<user_ai_configs, ai_service, notAi>>

\* clean_modpack_name up to the post of AIService.process, or to its answer when the
\* user has no enabled configuration or the service finds itself not enabled
clean_modpack_name(h) ==
    LET config == user_ai_configs[ai_calls[h].user]
        ai == configure(ai_service, config)
    IN  /\ pc = "ai"
        /\ ai_calls[h].pc = "authenticated"
        /\ IF config = NoConfig \/ ~config.enabled
           THEN /\ ai_calls' = [ai_calls EXCEPT ![h] = Idle]
                /\ UNCHANGED ai_service
           ELSE IF ~is_enabled(ai)
           THEN /\ ai_calls' = [ai_calls EXCEPT ![h] = Idle]
                /\ ai_service' = ai
           ELSE /\ ai_calls' = [ai_calls EXCEPT ![h].pc = "posted",
                                                ![h].sent = BuiltFrom(ai.config)]
                /\ ai_service' = [ai EXCEPT !.client = TRUE]
        /\ UNCHANGED <<user_ai_configs, notAi>>

\* the upstream answers, or the post times out: process and the handler return
AiAnswered(h) ==
    /\ pc = "ai"
    /\ ai_calls[h].pc = "posted"
    /\ ai_calls' = [ai_calls EXCEPT ![h] = Idle]
    /\ UNCHANGED <<user_ai_configs, ai_service, notAi>>

NextAi ==
    \/ update_ai_config
    \/ disable_ai
    \/ \E h \in Invocations : AiRequest(h)
    \/ \E h \in Invocations : clean_modpack_name(h)
    \/ \E h \in Invocations : AiAnswered(h)

SpecAi == InitAi /\ [][NextAi]_vars

(***************************************************************************)
(* Properties.                                                             *)
(***************************************************************************)
Returns == pc \in {"fetched", "done"}

Templates == {"Fabric", "Forge", "NeoForge", "Quilt", "Vanilla"}

\* s holds the token t
Mentions(s, t) == \E k \in 1..Len(s) : s[k] = t

\* no URL pattern matches u: no platform prefix is followed by a slug character
NoPatternMatches(u) ==
    ~\E k \in 1..(Len(u) - 1) :
        /\ u[k] \in {"curseforge.com/minecraft/modpacks/", "modrinth.com/modpack/"}
        /\ u[k + 1] \in SlugChars

\* C1: whatever the URL and whatever the upstream does (200 with any body,
\* non-200, a raised exception, a timeout, no CurseForge key), no exception
\* leaves fetch_modpack_info, the run goes on until generate_egg_json has
\* returned, and the descriptor has a name (the ModpackInfo's), a docker image
\* map, a startup command, an installation script and a variable list.
C1_AlwaysProducesEgg ==
    /\ ~raised
    /\ pc /= "raised"
    /\ pc = "done" \/ ENABLED Next
    /\ pc = "done" =>
          /\ {"name", "docker_images", "startup", "script", "variables"} \subseteq DOMAIN egg
          /\ egg.name = info.name
          /\ DOMAIN egg.docker_images /= {}
          /\ egg.startup /= <<>>
          /\ egg.script.template \in Templates
          /\ Len(egg.variables) >= 3

\* an egg was generated after the fetcher's except branch had caught a failure
C1_Witness == pc = "done" /\ caught /= "none" /\ egg.script.template \in Templates

\* C2: when an upstream call or a parsing step of a fetcher raises, the
\* fetcher still returns, and the ModpackInfo it returns has the slug with
\* hyphens replaced by spaces and title-cased as its name and a description
\* that holds the failure reason.
C2_FailureDegradesToSlug ==
    /\ ~raised
    /\ (Returns /\ caught /= "none") =>
          /\ info.name = SlugName(det.slug)
          /\ info.description /= None
          /\ Mentions(info.description, caught)

\* the fetch of slug "aB" returned after a timeout, named "Ab"
C2_Witness ==
    /\ pc = "fetched"
    /\ caught = "ReadTimeout"
    /\ det.slug = <<"a", "B">>
    /\ info.name = <<"A", "b">>

\* C3: when an upstream API answered a request with a non-200 status, the
\* fetcher returns the degraded placeholder: the name is derived from the slug
\* and the description records the failure.
C3_NonOkDegradesToSlug ==
    (Returns /\ \E k \in 1..Len(requests) : requests[k].answer = "non-200") =>
        /\ info.name = SlugName(det.slug)
        /\ Truthy(info.description)

\* C4: in both fetchers a loader string that is literally "neoforge" sets
\* modloader to NEOFORGE, never to FORGE.
C4_NeoforgeNeverForge ==
    (Returns /\ loader = <<"neo", "forge">>) => info.modloader = NEOFORGE

\* the Java version the rule table of the claim gives for major.minor
C5_Table(major, minor) ==
    IF major /= 1 THEN 21
    ELSE IF minor >= 21 THEN 21
    ELSE IF minor \in 18..20 THEN 17
    ELSE IF minor = 17 THEN 16
    ELSE IF minor \in 12..16 THEN 11
    ELSE 8

\* C5: _detect_java_version never raises, gives 17 for None, for the empty
\* string and for a string whose major or minor piece is no integer, and
\* otherwise follows the rule table (a missing minor counts as 0).
C5_JavaVersionTable ==
    pc = "java_done" =>
        /\ jv.exc = "none"
        /\ jv.val =
              IF mcv = None \/ mcv = <<>> THEN 17
              ELSE LET parts == Split(mcv)
                   IN  IF ~IntParses(parts[1]) THEN 17
                       ELSE IF Len(parts) = 1 THEN C5_Table(IntOf(parts[1]), 0)
                       ELSE IF ~IntParses(parts[2]) THEN 17
                       ELSE C5_Table(IntOf(parts[1]), IntOf(parts[2]))

\* "1.17" gave Java 16
C5_Witness == pc = "java_done" /\ mcv = <<"1", ".", "1", "7">> /\ jv.val = 16

\* u holds the prefix token of a platform followed by a slug character
HasSlugAfter(u, prefix) ==
    \E k \in 1..(Len(u) - 1) : u[k] = prefix /\ u[k + 1] \in SlugChars

IsText(s, cls) == s /= None /\ Len(s) >= 1 /\ \A k \in 1..Len(s) : s[k] \in cls

\* C6: detect_source returns for every string: (CURSEFORGE, slug, file id or
\* None) or (MODRINTH, slug, version id or None) with a slug that is not None,
\* and exactly (UNKNOWN, None, None) when no pattern matches.
C6_DetectTotal ==
    pc = "detected" =>
        IF HasSlugAfter(url, "curseforge.com/minecraft/modpacks/")
        THEN /\ det.source = "CURSEFORGE"
             /\ IsText(det.slug, SlugChars)
             /\ det.id = None \/ IsText(det.id, DigitChars)
        ELSE IF HasSlugAfter(url, "modrinth.com/modpack/")
        THEN /\ det.source = "MODRINTH"
             /\ IsText(det.slug, SlugChars)
             /\ det.id = None \/ IsText(det.id, AlnumChars)
        ELSE det = [source |-> "UNKNOWN", slug |-> None, id |-> None]

\* a Modrinth URL with a slug and no version id was detected
C6_Witness ==
    /\ pc = "detected"
    /\ det.source = "MODRINTH"
    /\ det.slug = <<"a", "-">>
    /\ det.id = None

\* C7: for a URL no pattern matches, no upstream request is issued and
\* fetch_modpack_info returns a ModpackInfo of source UNKNOWN named "Unknown
\* Modpack" whose other fields are at their defaults.
C7_UnknownKeepsDefaults ==
    NoPatternMatches(url) =>
        /\ requests = <<>>
        /\ Returns =>
              /\ info.source = "UNKNOWN"
              /\ info.name = Str("Unknown Modpack")
              /\ info.slug = <<>> /\ info.project_id = <<>> /\ info.file_id = None
              /\ info.minecraft_version = None /\ info.modloader = None
              /\ info.modloader_version = None /\ info.icon_url = None
              /\ info.author = None /\ info.download_url = None
              /\ info.java_version = 17 /\ info.mod_count = 0

\* the fetch of a URL of no known platform has returned
C7_Witness ==
    /\ pc = "fetched"
    /\ NoPatternMatches(url)
    /\ url = <<"example.com/", "a", "/version/", "9">>
    /\ info.source = "UNKNOWN"

\* C8 as stated: for a URL no pattern matches, the pipeline yields source
\* UNKNOWN and a descriptor whose installation script is the Vanilla template.
C8_UnknownYieldsVanilla ==
    (pc = "done" /\ NoPatternMatches(url)) =>
        /\ info.source = "UNKNOWN"
        /\ egg.script.template = "Vanilla"

\* C8 as amended: for a URL no pattern matches, the pipeline yields source
\* UNKNOWN with modloader None, the generator defaults the loader to FORGE,
\* and the installation script of the descriptor is the Forge template.
C8_UnknownYieldsForgeDefault ==
    (pc = "done" /\ NoPatternMatches(url)) =>
        /\ info.source = "UNKNOWN"
        /\ info.modloader = None
        /\ egg.script.template = "Forge"

\* an egg was generated for a URL of no known platform
C8_Witness ==
    /\ pc = "done"
    /\ NoPatternMatches(url)
    /\ url = <<"example.com/">>
    /\ egg.script.template = "Forge"

\* C9: the effective modloader is info.modloader when it is set and FORGE
\* when it is None, and it selects the installation script template: FABRIC,
\* FORGE, NEOFORGE and QUILT their own, VANILLA the Vanilla template.
C9_TemplateByEffectiveLoader ==
    pc = "done" =>
        LET effective == IF info.modloader = None THEN FORGE ELSE info.modloader
        IN  egg.script.template =
               CASE effective = FABRIC -> "Fabric"
                 [] effective = FORGE -> "Forge"
                 [] effective = NEOFORGE -> "NeoForge"
                 [] effective = QUILT -> "Quilt"
                 [] effective = VANILLA -> "Vanilla"

\* the Quilt template was selected for a QUILT ModpackInfo
C9_Witness == pc = "done" /\ info.modloader = QUILT /\ egg.script.template = "Quilt"

\* C10: the effective Java version is the override whenever one is given (any
\* integer) and info.java_version otherwise, and it determines the docker
\* image key, the install container tag and the startup flag profile.
C10_OverrideAlwaysWins ==
    pc = "done" =>
        LET effective == IF override.isNone THEN info.java_version ELSE override.val
        IN  /\ JavaKey(effective) \in DOMAIN egg.docker_images
            /\ egg.container = <<"eclipse-temurin:", effective, "-jdk">>
            /\ egg.startup = _get_startup_command(FORGE, effective)

\* C11: for every effective Java version N the docker image map holds the
\* key "Java N" and the keys "Java 17" and "Java 21"; it has exactly 2 entries
\* when N is 17 or 21 and exactly 3 otherwise.
C11_DockerImageKeys ==
    pc \in {"done", "again"} =>
        LET n == EffectiveJava(override, info)
            keys == DOMAIN egg.docker_images
        IN  /\ {JavaKey(n), JavaKey(17), JavaKey(21)} \subseteq keys
            /\ Cardinality(keys) = IF n \in {17, 21} THEN 2 ELSE 3

\* the map built for Java 8 has three entries
C11_Witness ==
    /\ pc = "done"
    /\ override = Override(8)
    /\ DOMAIN egg.docker_images = {JavaKey(8), JavaKey(17), JavaKey(21)}

\* the number a memory default spells
MemoryValue(s) ==
    CASE s = Str("6144") -> 6144 [] s = Str("4096") -> 4096 [] s = Str("3072") -> 3072
      [] s = Str("2048") -> 2048 [] s = Str("1536") -> 1536

\* the boundary mod_counts the claim lists, and the defaults it gives for them
C12_Boundaries ==
    << <<20, 1536>>, <<21, 2048>>, <<50, 2048>>, <<51, 3072>>,
       <<100, 3072>>, <<101, 4096>>, <<200, 4096>>, <<201, 6144>> >>

\* C12: the Server Memory default is the five-tier step function of
\* mod_count (> 200: 6144, 101..200: 4096, 51..100: 3072, 21..50: 2048,
\* <= 20: 1536), the eight boundary counts map as listed, and a call with a
\* larger mod_count never returns less than the call before it.
C12_MemoryTiers ==
    memory /= None =>
        /\ MemoryValue(memory) =
              IF modCount > 200 THEN 6144
              ELSE IF modCount \in 101..200 THEN 4096
              ELSE IF modCount \in 51..100 THEN 3072
              ELSE IF modCount \in 21..50 THEN 2048
              ELSE 1536
        /\ \A k \in 1..Len(C12_Boundaries) :
              modCount = C12_Boundaries[k][1] => MemoryValue(memory) = C12_Boundaries[k][2]
        /\ memory_before /= None => MemoryValue(memory_before) <= MemoryValue(memory)

\* 201 mods gave 6144 after a smaller count had given 4096
C12_Witness ==
    /\ modCount = 201
    /\ memory = Str("6144")
    /\ memory_before = Str("4096")

\* the variables of the list that are none of the fixed ones
LoaderVariablesOf(variables) ==
    {k \in 1..Len(variables) :
        variables[k].env_variable \notin
            {"SERVER_JARFILE", "SERVER_MEMORY", "MINECRAFT_VERSION", "MODPACK_URL"}}

\* the list starts with Server Jar File, Server Memory, Minecraft Version
StartsWithFixedVariables(variables) ==
    /\ Len(variables) >= 3
    /\ <<variables[1].name, variables[2].name, variables[3].name>>
          = <<"Server Jar File", "Server Memory", "Minecraft Version">>
    /\ <<variables[1].env_variable, variables[2].env_variable, variables[3].env_variable>>
          = <<"SERVER_JARFILE", "SERVER_MEMORY", "MINECRAFT_VERSION">>

\* v is the loader-version variable named and keyed for the modloader
NamedFor(v, modloader) ==
    <<v.name, v.env_variable>> =
        CASE modloader = FABRIC -> <<"Fabric Version", "FABRIC_VERSION">>
          [] modloader = FORGE -> <<"Forge Version", "FORGE_VERSION">>
          [] modloader = NEOFORGE -> <<"NeoForge Version", "NEOFORGE_VERSION">>
          [] modloader = QUILT -> <<"Quilt Version", "QUILT_VERSION">>
          [] modloader = VANILLA -> <<"Vanilla Version", "VANILLA_VERSION">>

\* the modloader the generator works with: info.modloader, FORGE when it is None
EffectiveOf(i) == IF i.modloader = None THEN FORGE ELSE i.modloader

\* C13 as stated: for every ModpackInfo (every modloader value, including
\* None and VANILLA) the variable list starts with Server Jar File, Server
\* Memory, Minecraft Version in this order and holds exactly one
\* loader-version variable, the one named and keyed for the effective
\* modloader.
C13_ExactlyOneLoaderVariable ==
    pc \in {"done", "again"} =>
        /\ StartsWithFixedVariables(egg.variables)
        /\ Cardinality(LoaderVariablesOf(egg.variables)) = 1
        /\ \A k \in LoaderVariablesOf(egg.variables) :
              NamedFor(egg.variables[k], EffectiveOf(info))

\* C13 as amended: the variable list starts with Server Jar File, Server
\* Memory, Minecraft Version in this order; when the effective modloader is
\* FABRIC, FORGE (also the default for None), NEOFORGE or QUILT it holds
\* exactly one loader-version variable, the fourth of the list, named and
\* keyed for that modloader; when the modloader is VANILLA it holds none.
C13_OneLoaderVariableUnlessVanilla ==
    pc \in {"done", "again"} =>
        /\ StartsWithFixedVariables(egg.variables)
        /\ IF EffectiveOf(info) = VANILLA
           THEN LoaderVariablesOf(egg.variables) = {}
           ELSE /\ LoaderVariablesOf(egg.variables) = {4}
                /\ NamedFor(egg.variables[4], EffectiveOf(info))

\* the descriptor of a VANILLA ModpackInfo has the three fixed variables only
C13_Witness ==
    /\ pc = "done"
    /\ info.modloader = VANILLA
    /\ info.download_url = None
    /\ Len(egg.variables) = 3

\* C14: the default of the loader-version variable is info.modloader_version
\* when it is set (a string that is not empty); otherwise it is the sentinel
\* of the loader: "latest" for Fabric, NeoForge and Quilt, "recommended" for
\* Forge, also when Forge is the default for a None modloader.
C14_LoaderVersionDefault ==
    pc \in {"done", "again"} =>
        \A k \in LoaderVariablesOf(egg.variables) :
            egg.variables[k].default_value =
                IF info.modloader_version /= None /\ info.modloader_version /= <<>>
                THEN info.modloader_version
                ELSE IF EffectiveOf(info) = FORGE THEN Str("recommended")
                ELSE Str("latest")

\* Forge as the default of a None modloader, no version known: "recommended"
C14_Witness ==
    /\ pc = "done"
    /\ info.modloader = None
    /\ info.modloader_version = None
    /\ egg.variables[4].env_variable = "FORGE_VERSION"
    /\ egg.variables[4].default_value = Str("recommended")

\* C15: the variable list holds a Modpack URL variable only if
\* info.download_url is not None; when download_url is a string that is not
\* empty the variable is there, is the last of the list and has download_url
\* as its default; without it the list is the one the same ModpackInfo gives
\* with no download_url.
C15_ModpackUrlVariable ==
    pc \in {"done", "again"} =>
        LET variables == egg.variables
            urls == {k \in 1..Len(variables) : variables[k].env_variable = "MODPACK_URL"}
            rest == IF urls = {} THEN variables ELSE SubSeq(variables, 1, Len(variables) - 1)
        IN  /\ urls /= {} => info.download_url /= None
            /\ (info.download_url /= None /\ info.download_url /= <<>>) =>
                  /\ urls = {Len(variables)}
                  /\ variables[Len(variables)].name = "Modpack URL"
                  /\ variables[Len(variables)].default_value = info.download_url
            /\ urls \subseteq {Len(variables)}
            /\ rest = generate_egg_json([info EXCEPT !.download_url = None],
                                        override, egg.exported_at).variables

\* a Fabric descriptor with the Modpack URL variable as its fifth and last
C15_Witness ==
    /\ pc = "done"
    /\ info.modloader = FABRIC
    /\ info.download_url = Str("https://cdn/pack.mrpack")
    /\ Len(egg.variables) = 5
    /\ egg.variables[5].env_variable = "MODPACK_URL"

\* the descriptor without its timestamp
WithoutTimestamp(e) == [e EXCEPT !.exported_at = 0]

\* C16: generate_egg_json is deterministic and free of side effects: a second
\* call on the same ModpackInfo with the same override returns a descriptor
\* equal to the first in every field but exported_at, and no call changes the
\* ModpackInfo it was given.
C16_Deterministic ==
    /\ [](pc = "again" /\ before.override = override =>
             WithoutTimestamp(egg) = WithoutTimestamp(before.egg))
    /\ [][pc' \in {"done", "again"} => info' = info]_vars

\* two calls with the same override returned descriptors of different times
C16_Witness ==
    /\ pc = "again"
    /\ before.override = override
    /\ override = Override(21)
    /\ before.egg.exported_at /= egg.exported_at

\* C17: every ModpackInfo fetch_modpack_info returns, on every path (success,
\* non-200, missing key, unknown URL, and the except branch taken after some
\* fields were filled), has java_version = _detect_java_version(minecraft_version).
C17_JavaVersionFollowsMinecraft ==
    Returns => info.java_version = _detect_java_version(info.minecraft_version).val

\* C18: with no CurseForge API key configured the CurseForge fetcher returns
\* at once, having issued no request, a ModpackInfo of source CURSEFORGE with
\* the slug and the URL it was given, the slug with hyphens replaced by spaces
\* and title-cased as its name, and a description that notes the missing key;
\* every other field has its default.
C18_NoKeyNoRequest ==
    (det.source = "CURSEFORGE" /\ apiKey = <<>>) =>
        /\ requests = <<>>
        /\ pc \in {"fetched", "done"}
        /\ info = [ModpackInfo EXCEPT
                      !.source = "CURSEFORGE", !.slug = det.slug, !.source_url = url,
                      !.name = SlugName(det.slug),
                      !.description = <<"CurseForge modpack: ">> \o det.slug
                                      \o <<" (API key not configured)">>]

\* the fetch of a CurseForge URL of slug "a-" returned without a key
C18_Witness ==
    /\ pc = "fetched"
    /\ apiKey = <<>>
    /\ det.source = "CURSEFORGE"
    /\ det.slug = <<"a", "-">>
    /\ info.name = <<"A", " ">>
    /\ requests = <<>>

\* the calls issued so far, in the order they were issued
CallsIssued == [k \in 1..Len(requests) |-> requests[k].call]

\* C20: within one Modrinth fetch at most two upstream requests are issued,
\* the version-list request only after the project request has returned (the
\* fetch waits for the version list only with the answered project request
\* behind it), and it is still issued when the project request was answered
\* non-200; within one CurseForge fetch at most one upstream request, the
\* search, is issued; a URL of no platform issues none.
C20_RequestOrder ==
    /\ det.source = "MODRINTH" =>
          /\ CallsIssued \in {<<>>, <<"modrinth:project">>,
                              <<"modrinth:project", "modrinth:versions">>}
          /\ pc = "modrinth_versions" =>
                (CallsIssued = <<"modrinth:project">> /\ requests[1].answer /= "no answer")
          /\ (CallsIssued = <<"modrinth:project">> /\ requests[1].answer = "non-200") =>
                pc = "modrinth_versions"
    /\ det.source = "CURSEFORGE" => CallsIssued \in {<<>>, <<"curseforge:search">>}
    /\ det.source = "UNKNOWN" => requests = <<>>

\* the version list was requested after the project request was answered non-200
C20_Witness ==
    /\ Len(requests) = 2
    /\ requests[1] = [call |-> "modrinth:project", answer |-> "non-200"]
    /\ requests[2].call = "modrinth:versions"

\* C19: under any interleaving of concurrent fetch_modpack_info and
\* generate_egg_json invocations on the shared ModpackService, each
\* invocation returns what it returns when run alone against the same
\* upstream answers, and no two invocations hold the same ModpackInfo object.
C19_InvocationsIndependent ==
    pc = "concurrent" =>
        \A p \in Invocations :
            LET me == calls.running[p]
                alone == FetchAlone(me.url, apiKey, me.got)
            IN  /\ me.pc \in {"fetched", "done"} => calls.infos[me.info] = alone
                /\ me.pc = "done" =>
                      me.egg = generate_egg_json(alone, me.override, me.egg.exported_at)
                /\ \A q \in Invocations \ {p} :
                      me.info /= 0 => calls.running[q].info /= me.info

\* a Modrinth fetch and a CurseForge fetch ran interleaved and both returned
C19_Witness ==
    /\ pc = "concurrent"
    /\ calls.running[1].pc = "done"
    /\ calls.running[2].pc = "fetched"
    /\ calls.running[1].det.source = "MODRINTH"
    /\ calls.running[2].det.source = "CURSEFORGE"
    /\ calls.running[1].info = 2
    /\ Len(calls.running[1].got) = 2
    /\ Len(calls.running[2].got) = 1

(***************************************************************************)
(* C21.  get_egg, export_egg_json and list_eggs hand an egg, or its        *)
(* json_data, to a user who is no admin only when the user owns the egg or *)
(* the egg is PUBLIC, whatever creations, updates, deletions and           *)
(* regenerations came before; what they hand out is a row of the table;    *)
(* an admin is refused no egg and an admin's unfiltered listing is the     *)
(* whole table.                                                            *)
(***************************************************************************)
Viewing == {"get_egg", "export_egg_json", "list_eggs"}

C21_ViewPermission ==
    last.endpoint \in Viewing =>
        /\ last.returned \subseteq eggs
        /\ last.by.role /= ADMIN =>
              \A e \in last.returned : e.owner_id = last.by.id \/ e.visibility = PUBLIC
        /\ last.by.role = ADMIN =>
              /\ last.status /= 403
              /\ last.endpoint /= "list_eggs" => last.returned = RowsOf(eggs, last.target)
              /\ last.endpoint = "list_eggs" /\ last.query = NoQuery => last.returned = eggs

\* a plain user was handed the json_data of another user's public egg
C21_Witness ==
    /\ last.endpoint = "export_egg_json"
    /\ last.status = 200
    /\ last.by.role = USER
    /\ \E e \in last.returned : e.owner_id /= last.by.id /\ e.visibility = PUBLIC

\* a plain user asked for another user's private egg and was refused
C21_WitnessRefused ==
    /\ last.endpoint = "get_egg"
    /\ last.status = 403
    /\ last.returned = {}
    /\ \E e \in eggs : e.id = last.target /\ e.visibility = PRIVATE

(***************************************************************************)
(* C22.  update_egg, delete_egg and regenerate_egg change or remove an egg *)
(* only for its owner or an admin: asked for an egg that is not there they *)
(* answer 404, asked by anybody else they answer 403, and either way the   *)
(* table stays as it was; and the table changes only by a creation or by   *)
(* such a request of the owner or an admin, and then only in the egg asked *)
(* for.                                                                    *)
(***************************************************************************)
Changing == {"update_egg", "delete_egg", "regenerate_egg"}

MayChange(current_user, e) == current_user.role = ADMIN \/ e.owner_id = current_user.id

ChangeChecked ==
    /\ last'.endpoint \in Changing =>
          LET found == RowsOf(eggs, last'.target)
          IN  IF found = {}
              THEN last'.status = 404 /\ eggs' = eggs
              ELSE IF \E e \in found : ~MayChange(last'.by, e)
              THEN last'.status = 403 /\ eggs' = eggs
              ELSE /\ last'.status \in {200, 204}
                   /\ eggs' \ RowsOf(eggs', last'.target) = eggs \ found
    /\ eggs' /= eggs =>
          \/ last'.endpoint = "create_egg_from_url" /\ eggs' = eggs \cup last'.returned
          \/ /\ last'.endpoint \in Changing
             /\ \E e \in RowsOf(eggs, last'.target) : MayChange(last'.by, e)

C22_WitnessOwner ==
    /\ last.endpoint = "delete_egg"
    /\ last.status = 204
    /\ last.by.role = USER
    /\ eggs = {}

(***************************************************************************)
(* C23.  In every step of the user endpoints: the role or is_active of a   *)
(* user changes only by a user update that get_current_user let in as an   *)
(* admin; a PATCH /users/me leaves the whole table as it was, whatever its *)
(* body; a user that register created has role USER and is active; any     *)
(* other new user was created by an admin.                                 *)
(***************************************************************************)
\* a step of the running API: a handler's, or get_current_user's for a waiting request
Serving == pc = "serving" /\ pc' = "serving"

RoleOrActiveChanged ==
    \E u \in users, v \in users' : u.id = v.id /\ (u.role /= v.role \/ u.is_active /= v.is_active)

Created == {v \in users' : RowsOf(users, v.id) = {}}

OnlyAdminsChangeRoles ==
    Serving =>
        /\ RoleOrActiveChanged =>
              /\ last'.endpoint \in {"users_update_user", "admin_update_user"}
              /\ last'.by.role = ADMIN
        /\ last'.endpoint = "update_current_user" => users' = users
        /\ \A v \in Created :
              \/ last'.endpoint = "register" /\ v.role = USER /\ v.is_active
              \/ last'.endpoint = "admin_create_user" /\ last'.by.role = ADMIN

C23_OnlyAdminsChangeRoles == [][OnlyAdminsChangeRoles]_vars

\* a plain user's PATCH /users/me was answered and the user is still a plain user
C23_Witness ==
    /\ last.endpoint = "update_current_user"
    /\ last.status = 200
    /\ last.by.role = USER
    /\ \E u \in users : u.id = last.by.id /\ u.role = USER

(***************************************************************************)
(* C24.  No request of the user management that get_current_user let in as *)
(* an admin removes the requester's own row, takes the role ADMIN from it  *)
(* or sets its is_active to false.                                         *)
(***************************************************************************)
UserManagement ==
    {"users_update_user", "users_delete_user", "admin_create_user", "admin_update_user",
     "admin_delete_user"}

SelfKept ==
    Serving /\ last'.endpoint \in UserManagement /\ last'.by.role = ADMIN =>
        \A me \in RowsOf(users, last'.by.id) :
            \E after \in RowsOf(users', me.id) :
                /\ me.role = ADMIN => after.role = ADMIN
                /\ me.is_active => after.is_active

C24_NoSelfHarm == [][SelfKept]_vars

(***************************************************************************)
(* C29.  Once create_default_admin has run, the users table holds a user   *)
(* with role ADMIN.                                                        *)
(***************************************************************************)
C29_AlwaysAnAdmin == pc = "serving" => \E u \in users : u.role = ADMIN

(***************************************************************************)
(* C25.  Of a list of version objects (Modrinth) or files (CurseForge) the *)
(* fetcher reads the first element that matches the secondary id, and      *)
(* element 0 when no id is given or none matches; the file_id, the         *)
(* Minecraft version and the download URL it stores are those of that      *)
(* element.  With an empty list it stores no version-derived field.        *)
(***************************************************************************)
Fetched == pc = "fetched"

\* the elements the claim calls matching
MatchingVersions ==
    {k \in 1..Len(listing.versions) :
        \/ Get(listing.versions[k].id, None) = listing.id
        \/ Get(listing.versions[k].version_number, None) = listing.id}

MatchingFiles ==
    {k \in 1..Len(listing.files) : StrOf(Get(listing.files[k].id, None)) = listing.id}

\* the element the claim says is selected
Chosen(matching) == IF listing.id /= None /\ matching /= {} THEN Min(matching) ELSE 1

AllObjects == \A k \in 1..Len(listing.versions) : listing.versions[k].dict

FirstMcVersion(game_versions) ==
    IF McVersions(game_versions) = <<>> THEN None ELSE McVersions(game_versions)[1]

NothingSelected ==
    /\ info.file_id = None
    /\ info.minecraft_version = None
    /\ info.modloader = None
    /\ info.modloader_version = None
    /\ info.download_url = None

C25_Selection ==
    Fetched =>
        /\ listing.platform = "MODRINTH" /\ listing.versions = <<>> => NothingSelected
        /\ listing.platform = "CURSEFORGE" /\ listing.files = <<>> => NothingSelected
        /\ listing.platform = "MODRINTH" /\ listing.versions /= <<>> /\ AllObjects =>
              LET version == listing.versions[Chosen(MatchingVersions)]
              IN  /\ info.file_id = Get(version.id, None)
                  /\ info.minecraft_version = FirstMcVersion(version.game_versions)
        /\ listing.platform = "CURSEFORGE" /\ listing.files /= <<>> =>
              LET target_file == listing.files[Chosen(MatchingFiles)]
              IN  /\ info.file_id = StrOf(Get(target_file.id, <<>>))
                  /\ info.download_url = Get(target_file.downloadUrl, None)

\* the second version of the list matched the id and was read
C25_Witness ==
    /\ Fetched
    /\ listing.platform = "MODRINTH"
    /\ AllObjects
    /\ Len(listing.versions) = 2
    /\ MatchingVersions = {2}
    /\ info.file_id = listing.versions[2].id
    /\ info.file_id /= Get(listing.versions[1].id, None)

\* the id matched no file and the first file was read
C25_WitnessNoMatch ==
    /\ Fetched
    /\ listing.platform = "CURSEFORGE"
    /\ listing.id /= None
    /\ Len(listing.files) = 2
    /\ MatchingFiles = {}
    /\ info.download_url = listing.files[1].downloadUrl
    /\ info.download_url /= Get(listing.files[2].downloadUrl, None)

(***************************************************************************)
(* C26.  After a Modrinth fetch modloader_version is set only when a       *)
(* modloader was detected and the version read has a dependency with a     *)
(* version_id whose project is not the Fabric API, and then it is the      *)
(* version_id of the last such dependency; it is set whenever both hold    *)
(* and nothing was raised.  A CurseForge fetch never sets it.  So a        *)
(* modloader_version is never there without a modloader.                   *)
(***************************************************************************)
FabricApi == {Str("P7dR8mSH"), Str("fabric-api")}

\* the dependencies of a version that can give the loader version
Eligible(deps) ==
    {k \in 1..Len(deps) :
        /\ Get(deps[k].project_id, <<>>) \notin FabricApi
        /\ Truthy(Get(deps[k].version_id, None))}

C26_ModloaderVersion ==
    Fetched =>
        /\ info.modloader_version /= None => info.modloader /= None
        /\ listing.platform = "CURSEFORGE" => info.modloader_version = None
        /\ listing.platform = "MODRINTH" /\ listing.versions /= <<>> /\ AllObjects =>
              LET deps == listing.versions[Chosen(MatchingVersions)].dependencies
              IN  /\ info.modloader_version /= None =>
                        /\ Eligible(deps) /= {}
                        /\ info.modloader_version = deps[Largest(Eligible(deps))].version_id
                  /\ info.modloader /= None /\ Eligible(deps) /= {} /\ caught = "none" =>
                        info.modloader_version /= None

\* the version read names the Fabric API last, and the loader version is the one before
C26_Witness ==
    /\ Fetched
    /\ listing.platform = "MODRINTH"
    /\ AllObjects
    /\ listing.versions /= <<>>
    /\ LET deps == listing.versions[Chosen(MatchingVersions)].dependencies
       IN  /\ Len(deps) = 2
           /\ Eligible(deps) = {1}
           /\ Truthy(Get(deps[2].version_id, None))
           /\ info.modloader_version = deps[1].version_id

(***************************************************************************)
(* C27.  In one descriptor the install script and the variable list agree: *)
(* the Minecraft version written into the script is the default of the     *)
(* Minecraft Version variable, and the loader version written into the     *)
(* script as the fallback of the loader's version variable is the default  *)
(* of that variable.                                                       *)
(***************************************************************************)
C27_ScriptAgreesWithVariables ==
    pc \in {"done", "again"} =>
        /\ egg.script.mc_version = egg.variables[3].default_value
        /\ \A k \in LoaderVariablesOf(egg.variables) :
              egg.script.loader_version = egg.variables[k].default_value

(***************************************************************************)
(* C28.  Every ModpackInfo fetch_modpack_info returns has mod_count 0, and *)
(* the Server Memory variable of every descriptor generated from it has    *)
(* the default "1536".                                                     *)
(***************************************************************************)
C28_ModCountStaysZero ==
    /\ Returns => info.mod_count = 0
    /\ pc = "done" =>
          /\ egg.variables[2].env_variable = "SERVER_MEMORY"
          /\ egg.variables[2].default_value = Str("1536")

\* a Modrinth fetch that read a whole version, and the descriptor generated from it
C28_Witness ==
    /\ pc = "done"
    /\ info.source = "MODRINTH"
    /\ caught = "none"
    /\ info.minecraft_version /= None
    /\ info.modloader_version /= None
    /\ egg.variables[2].default_value = Str("1536")

(***************************************************************************)
(* C30.  Every request a handler posts to the upstream is built from the   *)
(* AIConfig stored for the user the handler serves at the time it looked   *)
(* the configuration up: endpoint, Authorization header and model are      *)
(* those of that configuration, whatever other users' requests are under   *)
(* way on the one AIService.                                               *)
(***************************************************************************)
Posts(h) == ai_calls[h].pc /= "posted" /\ ai_calls'[h].pc = "posted"

OwnConfigSent ==
    \A h \in Invocations :
        Posts(h) =>
            LET own == user_ai_configs[ai_calls[h].user]
            IN  /\ own /= NoConfig
                /\ own.enabled
                /\ ai_calls'[h].user = ai_calls[h].user
                /\ ai_calls'[h].sent.endpoint = ChatEndpoint(own.api_endpoint)
                /\ ai_calls'[h].sent.model = own.model
                /\ ai_calls'[h].sent.authorization =
                      IF own.api_key = <<>> THEN None ELSE <<"Bearer ">> \o own.api_key

C30_OwnConfigSent == [][OwnConfigSent]_vars

\* requests of two users are under way at once, each built from its user's configuration
C30_Witness ==
    \E h, g \in Invocations :
        /\ ai_calls[h].pc = "posted"
        /\ ai_calls[g].pc = "posted"
        /\ ai_calls[h].user /= ai_calls[g].user
        /\ ai_calls[h].sent.model = Str("model-a")
        /\ ai_calls[g].sent.model = Str("model-b")
        /\ ai_calls[g].sent.authorization = None
        /\ ai_service.config.model = Str("model-b")

====
